---- MODULE Spec2Model ----
(***************************************************************************)
(* Model of the snarkjs proof parser of contracts/verifier/src/lib.rs, of   *)
(* the publisher contract of contracts/publisher/src/lib.rs and of the     *)
(* agent contract of contracts/agent/src/lib.rs.                           *)
(*                                                                         *)
(* A string is a sequence of one-character strings, so that trimming,      *)
(* prefix tests and digit decoding are computed character by character as  *)
(* the code does.  BN254's base and scalar field characteristics are       *)
(* 254-bit numbers; the model keeps their order (r < p) and scales both    *)
(* down to FqModulus and FrModulus so that the inputs straddle them.       *)
(***************************************************************************)
EXTENDS Integers, Sequences, FiniteSets, TLC

VARIABLES call, ret, reads,
          publisher, shade_agent, block_timestamp, promises, tx

vars == <<call, ret, reads, publisher, shade_agent, block_timestamp, promises, tx>>

\* The caller's view of the parser, and the state of the ledger.
verifierVars == <<call, ret, reads>>

ledgerVars == <<publisher, shade_agent, block_timestamp, promises, tx>>

(***************************************************************************)
(* Bounds of the model.                                                    *)
(***************************************************************************)
\* Longest input string handed directly to a field-element decoder.
MaxStrLen == 4
\* Longest pi_a / pi_b / pi_c vector and longest pi_b row.
MaxVec == 3
\* Longest publicSignals vector.
MaxSignals == 2
\* Stand-in for the characteristic p of ark_bn254::Fq.
FqModulus == 13
\* Stand-in for the characteristic r of ark_bn254::Fr (r < p).
FrModulus == 11

\* Most requests the publisher takes.
MaxRequests == 2
\* Last block time, in seconds.
MaxTimestamp == 2
\* Stand-in for the default min_deposit of 0.1 NEAR.
MinDepositDefault == 1
\* Stand-in for the default request_timeout of 3600 seconds.
RequestTimeoutDefault == 1
\* Most calls the agent contract forwards.
MaxSignatures == 1
\* Stand-in for 2^64, the number of u64 values.
U64Modulus == 8
\* Most requests taken while the owner changes the configuration.
ConfigRequests == 1
\* Longest allowed_actions vector.
MaxAllowedActions == 2

\* The characters input strings are built from.
Alphabet == {"0", "1", "7", "D", "d", "x", "X", "\"", "+", "-", "_", " "}

(***************************************************************************)
(* Characters.                                                             *)
(***************************************************************************)
DecDigits == {"0", "1", "2", "3", "4", "5", "6", "7", "8", "9"}

\* char::to_digit(10) on an ASCII decimal digit.
DecVal(c) ==
    CASE c = "0" -> 0 [] c = "1" -> 1 [] c = "2" -> 2 [] c = "3" -> 3
      [] c = "4" -> 4 [] c = "5" -> 5 [] c = "6" -> 6 [] c = "7" -> 7
      [] c = "8" -> 8 [] c = "9" -> 9

\* val() knowing only the digits and the capitals A to F.
HexVal_UpperOnly(c) ==
    CASE c \in DecDigits -> DecVal(c)
      [] c = "A" -> 10 [] c = "B" -> 11 [] c = "C" -> 12
      [] c = "D" -> 13 [] c = "E" -> 14 [] c = "F" -> 15
      [] OTHER -> -1

\* hex::decode's val(): the value of one hex digit, or -1 for any other byte.
HexVal(c) ==
    CASE c \in DecDigits -> DecVal(c)
      [] c \in {"a", "A"} -> 10 [] c \in {"b", "B"} -> 11
      [] c \in {"c", "C"} -> 12 [] c \in {"d", "D"} -> 13
      [] c \in {"e", "E"} -> 14 [] c \in {"f", "F"} -> 15
      [] OTHER -> -1

(***************************************************************************)
(* str::trim_matches('"'): every leading and every trailing quote goes.    *)
(***************************************************************************)
RECURSIVE TrimStartMatches(_)
TrimStartMatches(s) ==
    IF Len(s) > 0 /\ Head(s) = "\"" THEN TrimStartMatches(Tail(s)) ELSE s

RECURSIVE TrimEndMatches(_)
TrimEndMatches(s) ==
    IF Len(s) > 0 /\ s[Len(s)] = "\""
    THEN TrimEndMatches(SubSeq(s, 1, Len(s) - 1))
    ELSE s

\* Only one quote is removed from each end.
TrimMatches_OnePair(s) ==
    LET t == IF Len(s) > 0 /\ Head(s) = "\"" THEN Tail(s) ELSE s
    IN  IF Len(t) > 0 /\ t[Len(t)] = "\"" THEN SubSeq(t, 1, Len(t) - 1) ELSE t

TrimMatches(s) == TrimEndMatches(TrimStartMatches(s))

\* s.starts_with("0x") || s.starts_with("0X")
StartsWithHexPrefix(s) ==
    Len(s) >= 2 /\ s[1] = "0" /\ s[2] \in {"x", "X"}

(***************************************************************************)
(* hex::decode: an odd number of digits or a non-hex character is an       *)
(* error; otherwise one byte per pair of digits, the empty string giving   *)
(* the empty byte vector.                                                  *)
(***************************************************************************)
\* The two digits of a byte taken low nibble first.
RECURSIVE HexPairs_NibbleSwap(_)
HexPairs_NibbleSwap(h) ==
    IF Len(h) = 0 THEN <<>>
    ELSE <<HexVal(h[1]) + 16 * HexVal(h[2])>> \o HexPairs_NibbleSwap(SubSeq(h, 3, Len(h)))

RECURSIVE HexPairs(_)
HexPairs(h) ==
    IF Len(h) = 0 THEN <<>>
    ELSE <<16 * HexVal(h[1]) + HexVal(h[2])>> \o HexPairs(SubSeq(h, 3, Len(h)))

HexDecode(h) ==
    IF Len(h) % 2 # 0 THEN [ok |-> FALSE, bytes |-> <<>>]
    ELSE IF \E i \in 1..Len(h) : HexVal(h[i]) < 0 THEN [ok |-> FALSE, bytes |-> <<>>]
    ELSE [ok |-> TRUE, bytes |-> HexPairs(h)]

(***************************************************************************)
(* num_bigint: BigUint::from_str = from_str_radix(s, 10).  One leading '+' *)
(* is dropped (unless another '+' follows it), the empty string and a      *)
(* leading '_' are errors, later '_' are skipped, and every other byte     *)
(* must be a digit below the radix.                                        *)
(***************************************************************************)
RECURSIVE DigitsValue(_, _)
DigitsValue(s, acc) ==
    IF Len(s) = 0 THEN acc
    ELSE IF Head(s) = "_" THEN DigitsValue(Tail(s), acc)
    ELSE DigitsValue(Tail(s), 10 * acc + DecVal(Head(s)))

\* from_str_radix without its "must lead with a real digit" test.
BigUintFromStr_LeadingUnderscore(s) ==
    LET t == IF Len(s) > 0 /\ Head(s) = "+" /\ ~(Len(s) > 1 /\ s[2] = "+")
             THEN Tail(s) ELSE s
    IN  IF Len(t) = 0 THEN [ok |-> FALSE, val |-> 0]
        ELSE IF \E i \in 1..Len(t) : t[i] \notin DecDigits \cup {"_"}
             THEN [ok |-> FALSE, val |-> 0]
        ELSE [ok |-> TRUE, val |-> DigitsValue(t, 0)]

BigUintFromStr(s) ==
    LET t == IF Len(s) > 0 /\ Head(s) = "+" /\ ~(Len(s) > 1 /\ s[2] = "+")
             THEN Tail(s) ELSE s
    IN  IF Len(t) = 0 THEN [ok |-> FALSE, val |-> 0]
        ELSE IF Head(t) = "_" THEN [ok |-> FALSE, val |-> 0]
        ELSE IF \E i \in 1..Len(t) : t[i] \notin DecDigits \cup {"_"}
             THEN [ok |-> FALSE, val |-> 0]
        ELSE [ok |-> TRUE, val |-> DigitsValue(t, 0)]

\* BigUint::to_bytes_be: base-256 digits, most significant first; zero is [0].
RECURSIVE ToBytesBe(_)
ToBytesBe(n) ==
    IF n < 256 THEN <<n>> ELSE ToBytesBe(n \div 256) \o <<n % 256>>

\* PrimeField::from_be_bytes_mod_order: the big-endian number, reduced mod q.
\* The bytes read least significant first.
RECURSIVE FromBeBytesModOrder_LittleEndian(_, _, _)
FromBeBytesModOrder_LittleEndian(bytes, q, acc) ==
    IF Len(bytes) = 0 THEN acc
    ELSE (Head(bytes) + 256 * FromBeBytesModOrder_LittleEndian(Tail(bytes), q, acc)) % q

RECURSIVE FromBeBytesModOrder(_, _, _)
FromBeBytesModOrder(bytes, q, acc) ==
    IF Len(bytes) = 0 THEN acc
    ELSE FromBeBytesModOrder(Tail(bytes), q, (acc * 256 + Head(bytes)) % q)

(***************************************************************************)
(* Results.                                                                *)
(***************************************************************************)
Ok(v) == [kind |-> "Ok", val |-> v]

Err(e) == [kind |-> "Err", err |-> e]

Panic == [kind |-> "Panic"]

InvalidFieldElement(s) == [variant |-> "InvalidFieldElement", msg |-> s]

InvalidPiALength(e, g) == [variant |-> "InvalidPiALength", expected |-> e, got |-> g]

InvalidPiBLength(e, g) == [variant |-> "InvalidPiBLength", expected |-> e, got |-> g]

InvalidPiCLength(e, g) == [variant |-> "InvalidPiCLength", expected |-> e, got |-> g]

(***************************************************************************)
(* parse_fq_element and parse_fr_element.                                  *)
(***************************************************************************)
\* The error carries the string as it was passed in.
ParseFqElement_RawPayload(str) ==
    LET s   == TrimMatches(str)
        hex == HexDecode(SubSeq(s, 3, Len(s)))
        dec == BigUintFromStr(s)
    IN  IF StartsWithHexPrefix(s) /\ hex.ok
        THEN Ok(FromBeBytesModOrder(hex.bytes, FqModulus, 0))
        ELSE IF dec.ok
        THEN Ok(FromBeBytesModOrder(ToBytesBe(dec.val), FqModulus, 0))
        ELSE Err(InvalidFieldElement(str))

ParseFqElement(str) ==
    LET s   == TrimMatches(str)
        hex == HexDecode(SubSeq(s, 3, Len(s)))
        dec == BigUintFromStr(s)
    IN  IF StartsWithHexPrefix(s) /\ hex.ok
        THEN Ok(FromBeBytesModOrder(hex.bytes, FqModulus, 0))
        ELSE IF dec.ok
        THEN Ok(FromBeBytesModOrder(ToBytesBe(dec.val), FqModulus, 0))
        ELSE Err(InvalidFieldElement(s))

\* Public signals reduced in the base field.
ParseFrElement_InFq(str) ==
    LET s   == TrimMatches(str)
        hex == HexDecode(SubSeq(s, 3, Len(s)))
        dec == BigUintFromStr(s)
    IN  IF StartsWithHexPrefix(s) /\ hex.ok
        THEN Ok(FromBeBytesModOrder(hex.bytes, FqModulus, 0))
        ELSE IF dec.ok
        THEN Ok(FromBeBytesModOrder(ToBytesBe(dec.val), FqModulus, 0))
        ELSE Err(InvalidFieldElement(s))

ParseFrElement(str) ==
    LET s   == TrimMatches(str)
        hex == HexDecode(SubSeq(s, 3, Len(s)))
        dec == BigUintFromStr(s)
    IN  IF StartsWithHexPrefix(s) /\ hex.ok
        THEN Ok(FromBeBytesModOrder(hex.bytes, FrModulus, 0))
        ELSE IF dec.ok
        THEN Ok(FromBeBytesModOrder(ToBytesBe(dec.val), FrModulus, 0))
        ELSE Err(InvalidFieldElement(s))

(***************************************************************************)
(* Curve points.  G1Affine and G2Affine are (x, y, infinity); identity()   *)
(* is the zero coordinates with the flag set, new_unchecked stores the     *)
(* coordinates as given, with no on-curve or subgroup check.               *)
(***************************************************************************)
Fq2New(c0, c1) == [c0 |-> c0, c1 |-> c1]

Fq2IsZero(a) == a.c0 = 0 /\ a.c1 = 0

G1Identity == [infinity |-> TRUE, x |-> 0, y |-> 0]

G1NewUnchecked(x, y) == [infinity |-> FALSE, x |-> x, y |-> y]

G2Identity == [infinity |-> TRUE, x |-> Fq2New(0, 0), y |-> Fq2New(0, 0)]

G2NewUnchecked(x, y) == [infinity |-> FALSE, x |-> x, y |-> y]

(***************************************************************************)
(* parse_g1_point and parse_g2_point.  Each returns its result together    *)
(* with the strings it handed to parse_fq_element, in call order.  An      *)
(* index past the end of a slice panics.                                   *)
(***************************************************************************)
\* parse_g1_point with the identity test written with || instead of &&.
ParseG1Point_EitherZero(x_str, y_str) ==
    LET x == ParseFqElement(x_str)
        y == ParseFqElement(y_str)
    IN  IF x.kind # "Ok" THEN [ret |-> x, reads |-> <<x_str>>]
        ELSE IF y.kind # "Ok" THEN [ret |-> y, reads |-> <<x_str, y_str>>]
        ELSE [ret   |-> IF x.val = 0 \/ y.val = 0
                        THEN Ok(G1Identity)
                        ELSE Ok(G1NewUnchecked(x.val, y.val)),
              reads |-> <<x_str, y_str>>]

ParseG1Point(x_str, y_str) ==
    LET x == ParseFqElement(x_str)
        y == ParseFqElement(y_str)
    IN  IF x.kind # "Ok" THEN [ret |-> x, reads |-> <<x_str>>]
        ELSE IF y.kind # "Ok" THEN [ret |-> y, reads |-> <<x_str, y_str>>]
        ELSE [ret   |-> IF x.val = 0 /\ y.val = 0
                        THEN Ok(G1Identity)
                        ELSE Ok(G1NewUnchecked(x.val, y.val)),
              reads |-> <<x_str, y_str>>]

\* parse_g2_point with the components of each coordinate pair exchanged,
\* on rows of two strings.
ParseG2Point_SwappedComponents(coords) ==
    LET c0_x == ParseFqElement(coords[1][1])
        c1_x == ParseFqElement(coords[1][2])
        c0_y == ParseFqElement(coords[2][1])
        c1_y == ParseFqElement(coords[2][2])
        x    == Fq2New(c1_x.val, c0_x.val)
        y    == Fq2New(c1_y.val, c0_y.val)
        rd   == <<coords[1][1], coords[1][2], coords[2][1], coords[2][2]>>
    IN  IF Len(coords) < 2 \/ Len(coords[1]) < 2 \/ Len(coords[2]) < 2
        THEN [ret |-> Panic, reads |-> <<>>]
        ELSE IF c0_x.kind # "Ok" THEN [ret |-> c0_x, reads |-> SubSeq(rd, 1, 1)]
        ELSE IF c1_x.kind # "Ok" THEN [ret |-> c1_x, reads |-> SubSeq(rd, 1, 2)]
        ELSE IF c0_y.kind # "Ok" THEN [ret |-> c0_y, reads |-> SubSeq(rd, 1, 3)]
        ELSE IF c1_y.kind # "Ok" THEN [ret |-> c1_y, reads |-> rd]
        ELSE [ret   |-> IF Fq2IsZero(x) /\ Fq2IsZero(y)
                        THEN Ok(G2Identity)
                        ELSE Ok(G2NewUnchecked(x, y)),
              reads |-> rd]

ParseG2Point(coords) ==
    LET c0_x == ParseFqElement(coords[1][1])
        c1_x == ParseFqElement(coords[1][2])
        c0_y == ParseFqElement(coords[2][1])
        c1_y == ParseFqElement(coords[2][2])
        x    == Fq2New(c0_x.val, c1_x.val)
        y    == Fq2New(c0_y.val, c1_y.val)
    IN  IF Len(coords) < 1 \/ Len(coords[1]) < 1
        THEN [ret |-> Panic, reads |-> <<>>]
        ELSE IF c0_x.kind # "Ok"
        THEN [ret |-> c0_x, reads |-> <<coords[1][1]>>]
        ELSE IF Len(coords[1]) < 2
        THEN [ret |-> Panic, reads |-> <<coords[1][1]>>]
        ELSE IF c1_x.kind # "Ok"
        THEN [ret |-> c1_x, reads |-> <<coords[1][1], coords[1][2]>>]
        ELSE IF Len(coords) < 2 \/ Len(coords[2]) < 1
        THEN [ret |-> Panic, reads |-> <<coords[1][1], coords[1][2]>>]
        ELSE IF c0_y.kind # "Ok"
        THEN [ret |-> c0_y, reads |-> <<coords[1][1], coords[1][2], coords[2][1]>>]
        ELSE IF Len(coords[2]) < 2
        THEN [ret |-> Panic, reads |-> <<coords[1][1], coords[1][2], coords[2][1]>>]
        ELSE IF c1_y.kind # "Ok"
        THEN [ret   |-> c1_y,
              reads |-> <<coords[1][1], coords[1][2], coords[2][1], coords[2][2]>>]
        ELSE [ret   |-> IF Fq2IsZero(x) /\ Fq2IsZero(y)
                        THEN Ok(G2Identity)
                        ELSE Ok(G2NewUnchecked(x, y)),
              reads |-> <<coords[1][1], coords[1][2], coords[2][1], coords[2][2]>>]

(***************************************************************************)
(* public_signals.iter().map(parse_fr_element).collect(): the signals are  *)
(* decoded front to back and the first error ends the iteration.           *)
(***************************************************************************)
\* The signal loop written with filter_map: undecodable signals are dropped.
RECURSIVE CollectPublicInputs_SkipBad(_, _, _)
CollectPublicInputs_SkipBad(signals, acc, rd) ==
    IF Len(signals) = 0 THEN [ret |-> Ok(acc), reads |-> rd]
    ELSE LET e == ParseFrElement(Head(signals))
         IN  CollectPublicInputs_SkipBad(
                 Tail(signals),
                 IF e.kind = "Ok" THEN Append(acc, e.val) ELSE acc,
                 Append(rd, Head(signals)))

\* The signal loop pushing each element at the front of the vector.
RECURSIVE CollectPublicInputs_Reversed(_, _, _)
CollectPublicInputs_Reversed(signals, acc, rd) ==
    IF Len(signals) = 0 THEN [ret |-> Ok(acc), reads |-> rd]
    ELSE LET e == ParseFrElement(Head(signals))
         IN  IF e.kind # "Ok"
             THEN [ret |-> e, reads |-> Append(rd, Head(signals))]
             ELSE CollectPublicInputs_Reversed(Tail(signals), <<e.val>> \o acc,
                                               Append(rd, Head(signals)))

RECURSIVE CollectPublicInputs(_, _, _)
CollectPublicInputs(signals, acc, rd) ==
    IF Len(signals) = 0 THEN [ret |-> Ok(acc), reads |-> rd]
    ELSE LET e == ParseFrElement(Head(signals))
         IN  IF e.kind # "Ok"
             THEN [ret |-> e, reads |-> Append(rd, Head(signals))]
             ELSE CollectPublicInputs(Tail(signals), Append(acc, e.val),
                                      Append(rd, Head(signals)))

(***************************************************************************)
(* Variants of to_arkworks_proof with one slip each; the properties below  *)
(* tell the code apart from them.                                          *)
(***************************************************************************)
\* The part of to_arkworks_proof that follows the three length checks.
PointsAndInputs(self) ==
    LET pi_a == ParseG1Point(self.pi_a[1], self.pi_a[2])
        pi_b == ParseG2Point(self.pi_b)
        pi_c == ParseG1Point(self.pi_c[1], self.pi_c[2])
        public_inputs == CollectPublicInputs(self.public_signals, <<>>, <<>>)
    IN  IF pi_a.ret.kind # "Ok" THEN pi_a
        ELSE IF pi_b.ret.kind # "Ok"
        THEN [ret |-> pi_b.ret, reads |-> pi_a.reads \o pi_b.reads]
        ELSE IF pi_c.ret.kind # "Ok"
        THEN [ret |-> pi_c.ret, reads |-> pi_a.reads \o pi_b.reads \o pi_c.reads]
        ELSE IF public_inputs.ret.kind # "Ok"
        THEN [ret   |-> public_inputs.ret,
              reads |-> pi_a.reads \o pi_b.reads \o pi_c.reads \o public_inputs.reads]
        ELSE [ret   |-> Ok([pi_a |-> pi_a.ret.val,
                            pi_b |-> pi_b.ret.val,
                            pi_c |-> pi_c.ret.val,
                            public_inputs |-> public_inputs.ret.val]),
              reads |-> pi_a.reads \o pi_b.reads \o pi_c.reads \o public_inputs.reads]

\* The length of pi_b is checked before the length of pi_a.
ToArkworksProof_PiBFirst(self) ==
    IF Len(self.pi_b) # 2
    THEN [ret |-> Err(InvalidPiBLength(2, Len(self.pi_b))), reads |-> <<>>]
    ELSE IF Len(self.pi_a) # 2
    THEN [ret |-> Err(InvalidPiALength(2, Len(self.pi_a))), reads |-> <<>>]
    ELSE IF Len(self.pi_c) # 2
    THEN [ret |-> Err(InvalidPiCLength(2, Len(self.pi_c))), reads |-> <<>>]
    ELSE PointsAndInputs(self)

\* pi_a is parsed as soon as its own length is known to be 2.
ToArkworksProof_ParseEarly(self) ==
    LET pi_a == ParseG1Point(self.pi_a[1], self.pi_a[2])
    IN  IF Len(self.pi_a) # 2
        THEN [ret |-> Err(InvalidPiALength(2, Len(self.pi_a))), reads |-> <<>>]
        ELSE IF pi_a.ret.kind # "Ok" THEN pi_a
        ELSE IF Len(self.pi_b) # 2
        THEN [ret |-> Err(InvalidPiBLength(2, Len(self.pi_b))), reads |-> pi_a.reads]
        ELSE IF Len(self.pi_c) # 2
        THEN [ret |-> Err(InvalidPiCLength(2, Len(self.pi_c))), reads |-> pi_a.reads]
        ELSE PointsAndInputs(self)

(***************************************************************************)
(* SnarkJSProof::to_arkworks_proof.                                        *)
(***************************************************************************)
ToArkworksProof(self) ==
    LET pi_a == ParseG1Point(self.pi_a[1], self.pi_a[2])
        pi_b == ParseG2Point(self.pi_b)
        pi_c == ParseG1Point(self.pi_c[1], self.pi_c[2])
        public_inputs == CollectPublicInputs(self.public_signals, <<>>, <<>>)
    IN  IF Len(self.pi_a) # 2
        THEN [ret |-> Err(InvalidPiALength(2, Len(self.pi_a))), reads |-> <<>>]
        ELSE IF Len(self.pi_b) # 2
        THEN [ret |-> Err(InvalidPiBLength(2, Len(self.pi_b))), reads |-> <<>>]
        ELSE IF Len(self.pi_c) # 2
        THEN [ret |-> Err(InvalidPiCLength(2, Len(self.pi_c))), reads |-> <<>>]
        ELSE IF pi_a.ret.kind # "Ok" THEN pi_a
        ELSE IF pi_b.ret.kind # "Ok"
        THEN [ret |-> pi_b.ret, reads |-> pi_a.reads \o pi_b.reads]
        ELSE IF pi_c.ret.kind # "Ok"
        THEN [ret |-> pi_c.ret, reads |-> pi_a.reads \o pi_b.reads \o pi_c.reads]
        ELSE IF public_inputs.ret.kind # "Ok"
        THEN [ret   |-> public_inputs.ret,
              reads |-> pi_a.reads \o pi_b.reads \o pi_c.reads \o public_inputs.reads]
        ELSE [ret   |-> Ok([pi_a |-> pi_a.ret.val,
                            pi_b |-> pi_b.ret.val,
                            pi_c |-> pi_c.ret.val,
                            public_inputs |-> public_inputs.ret.val]),
              reads |-> pi_a.reads \o pi_b.reads \o pi_c.reads \o public_inputs.reads]

(***************************************************************************)
(* The wire codec.  A JSON text is a sequence of characters.               *)
(* serde_json::to_string on the derived Serialize of SnarkJSProof writes   *)
(* the compact form: the four members in declaration order, the last one   *)
(* under its renamed key, every string between quotes with '"', '\' and    *)
(* the control characters escaped.                                         *)
(***************************************************************************)
JsonParseError(msg) == [variant |-> "JsonParseError", msg |-> msg]

QuoteChar == "\""

Backslash == "\\"

Newline == "\n"

KeyPiA == <<"p", "i", "_", "a">>

KeyPiB == <<"p", "i", "_", "b">>

KeyPiC == <<"p", "i", "_", "c">>

KeyPublicSignals == <<"p", "u", "b", "l", "i", "c", "S", "i", "g", "n", "a", "l", "s">>

\* The wire names of the fields, in declaration order.
FieldKeys == <<KeyPiA, KeyPiB, KeyPiC, KeyPublicSignals>>

\* format_escaped_str_contents on one character.
EscapeChar(c) ==
    CASE c = QuoteChar -> <<Backslash, QuoteChar>>
      [] c = Backslash -> <<Backslash, Backslash>>
      [] c = Newline   -> <<Backslash, "n">>
      [] OTHER         -> <<c>>

RECURSIVE EscapeStr(_)
EscapeStr(s) == IF Len(s) = 0 THEN <<>> ELSE EscapeChar(Head(s)) \o EscapeStr(Tail(s))

\* A string written without escaping.
WriteString_Raw(s) == <<QuoteChar>> \o s \o <<QuoteChar>>

WriteString(s) == <<QuoteChar>> \o EscapeStr(s) \o <<QuoteChar>>

\* The elements of a sequence of texts, separated by commas.
RECURSIVE JoinComma(_)
JoinComma(texts) ==
    IF Len(texts) = 0 THEN <<>>
    ELSE IF Len(texts) = 1 THEN texts[1]
    ELSE texts[1] \o <<",">> \o JoinComma(Tail(texts))

WriteVecString(v) ==
    <<"[">> \o JoinComma([i \in 1..Len(v) |-> WriteString(v[i])]) \o <<"]">>

WriteVecVecString(v) ==
    <<"[">> \o JoinComma([i \in 1..Len(v) |-> WriteVecString(v[i])]) \o <<"]">>

WriteMember(key, text) == WriteString(key) \o <<":">> \o text

\* serde_json::to_string(&proof).
ToJsonString(self) ==
    <<"{">>
        \o JoinComma(<<WriteMember(KeyPiA, WriteVecString(self.pi_a)),
                       WriteMember(KeyPiB, WriteVecVecString(self.pi_b)),
                       WriteMember(KeyPiC, WriteVecString(self.pi_c)),
                       WriteMember(KeyPublicSignals,
                                   WriteVecString(self.public_signals))>>)
        \o <<"}">>

(***************************************************************************)
(* serde_json::from_str::<SnarkJSProof>.  The deserializer reads the text  *)
(* front to back and stops at the first error.  A step's result is the     *)
(* value read and the index after it, or the class of the error            *)
(* (serde_json::error::Category: Eof, Syntax or Data).  Numbers are read   *)
(* without fraction and exponent and strings without \u escapes: the       *)
(* documents below hold neither.                                           *)
(***************************************************************************)
Done(v, i) == [ok |-> TRUE, val |-> v, next |-> i]

Fail(cat) == [ok |-> FALSE, cat |-> cat]

RECURSIVE SkipWhitespace(_, _)
SkipWhitespace(d, i) ==
    IF i <= Len(d) /\ d[i] \in {" ", "\n", "\t", "\r"} THEN SkipWhitespace(d, i + 1) ELSE i

\* The character an escape sequence stands for.
Unescape(c) ==
    CASE c = QuoteChar -> QuoteChar
      [] c = Backslash -> Backslash
      [] c = "/" -> "/"
      [] c = "n" -> Newline
      [] c = "t" -> "\t"
      [] c = "r" -> "\r"

\* parse_str from the character after the opening quote.
RECURSIVE ParseStr(_, _, _)
ParseStr(d, i, acc) ==
    IF i > Len(d) THEN Fail("Eof")
    ELSE IF d[i] = QuoteChar THEN Done(acc, i + 1)
    ELSE IF d[i] = Backslash
    THEN IF i + 1 > Len(d) THEN Fail("Eof")
         ELSE IF d[i + 1] \in {QuoteChar, Backslash, "/", "n", "t", "r"}
         THEN ParseStr(d, i + 2, Append(acc, Unescape(d[i + 1])))
         ELSE Fail("Syntax")
    ELSE IF d[i] \in {"\n", "\t", "\r"} THEN Fail("Syntax")
    ELSE ParseStr(d, i + 1, Append(acc, d[i]))

RECURSIVE SkipDigits(_, _)
SkipDigits(d, i) ==
    IF i <= Len(d) /\ d[i] \in DecDigits THEN SkipDigits(d, i + 1) ELSE i

\* parse_integer from a '-' or a digit.
ParseNumber(d, i) ==
    LET j == IF d[i] = "-" THEN i + 1 ELSE i
    IN  IF j > Len(d) THEN Fail("Eof")
        ELSE IF d[j] \notin DecDigits THEN Fail("Syntax")
        ELSE IF d[j] = "0"
        THEN IF j + 1 <= Len(d) /\ d[j + 1] \in DecDigits
             THEN Fail("Syntax")
             ELSE Done([t |-> "number"], j + 1)
        ELSE Done([t |-> "number"], SkipDigits(d, j))

\* parse_ident: the rest of null, true or false.
RECURSIVE ParseIdent(_, _, _)
ParseIdent(d, i, rest) ==
    IF Len(rest) = 0 THEN Done([t |-> "ident"], i)
    ELSE IF i > Len(d) THEN Fail("Eof")
    ELSE IF d[i] # Head(rest) THEN Fail("Syntax")
    ELSE ParseIdent(d, i + 1, Tail(rest))

\* The value at i, which is not of the expected type: it is read as far as
\* needed to name it, and the error is a data error unless reading fails.
PeekInvalidType(d, i) ==
    LET r == CASE d[i] = QuoteChar -> ParseStr(d, i + 1, <<>>)
               [] d[i] = "-" \/ d[i] \in DecDigits -> ParseNumber(d, i)
               [] d[i] = "n" -> ParseIdent(d, i + 1, <<"u", "l", "l">>)
               [] d[i] = "t" -> ParseIdent(d, i + 1, <<"r", "u", "e">>)
               [] d[i] = "f" -> ParseIdent(d, i + 1, <<"a", "l", "s", "e">>)
               [] d[i] \in {"[", "{"} -> Done([t |-> "nested"], i)
               [] OTHER -> Fail("Syntax")
    IN  IF r.ok THEN Fail("Data") ELSE r

RECURSIVE Deserialize(_, _, _)
RECURSIVE SeqAccess(_, _, _, _, _)
RECURSIVE IgnoreMap(_, _, _)

\* T::deserialize for T one of String, VecString, VecVecString, IgnoredAny.
Deserialize(ty, d, i0) ==
    LET i == SkipWhitespace(d, i0)
    IN  IF i > Len(d) THEN Fail("Eof")
        ELSE IF ty = "String"
        THEN IF d[i] = QuoteChar THEN ParseStr(d, i + 1, <<>>)
             ELSE PeekInvalidType(d, i)
        ELSE IF ty \in {"VecString", "VecVecString"}
        THEN IF d[i] = "[" THEN SeqAccess(IF ty = "VecVecString" THEN "VecString" ELSE "String",
                                       d, i + 1, TRUE, <<>>)
             ELSE PeekInvalidType(d, i)
        ELSE CASE d[i] = QuoteChar -> ParseStr(d, i + 1, <<>>)
               [] d[i] = "-" \/ d[i] \in DecDigits -> ParseNumber(d, i)
               [] d[i] = "n" -> ParseIdent(d, i + 1, <<"u", "l", "l">>)
               [] d[i] = "t" -> ParseIdent(d, i + 1, <<"r", "u", "e">>)
               [] d[i] = "f" -> ParseIdent(d, i + 1, <<"a", "l", "s", "e">>)
               [] d[i] = "[" -> SeqAccess("IgnoredAny", d, i + 1, TRUE, <<>>)
               [] d[i] = "{" -> IgnoreMap(d, i + 1, TRUE)
               [] OTHER -> Fail("Syntax")

\* The elements of an array after its '[', up to and with its ']'.
SeqAccess(ety, d, i0, first, acc) ==
    LET i == SkipWhitespace(d, i0)
        j == IF first THEN i ELSE SkipWhitespace(d, i + 1)
        e == Deserialize(ety, d, j)
    IN  IF i > Len(d) THEN Fail("Eof")
        ELSE IF d[i] = "]" THEN Done(acc, i + 1)
        ELSE IF ~first /\ d[i] # "," THEN Fail("Syntax")
        ELSE IF j > Len(d) THEN Fail("Eof")
        ELSE IF d[j] = "]" THEN Fail("Syntax")
        ELSE IF ~e.ok THEN e
        ELSE SeqAccess(ety, d, e.next, FALSE,
                       IF ety = "IgnoredAny" THEN acc ELSE Append(acc, e.val))

\* The members of an ignored object after its '{', up to and with its '}'.
IgnoreMap(d, i0, first) ==
    LET i == SkipWhitespace(d, i0)
        j == IF first THEN i ELSE SkipWhitespace(d, i + 1)
        k == ParseStr(d, j + 1, <<>>)
        c == SkipWhitespace(d, k.next)
        v == Deserialize("IgnoredAny", d, c + 1)
    IN  IF i > Len(d) THEN Fail("Eof")
        ELSE IF d[i] = "}" THEN Done([t |-> "map"], i + 1)
        ELSE IF ~first /\ d[i] # "," THEN Fail("Syntax")
        ELSE IF j > Len(d) THEN Fail("Eof")
        ELSE IF d[j] # QuoteChar THEN Fail("Syntax")
        ELSE IF ~k.ok THEN k
        ELSE IF c > Len(d) THEN Fail("Eof")
        ELSE IF d[c] # ":" THEN Fail("Syntax")
        ELSE IF ~v.ok THEN v
        ELSE IgnoreMap(d, v.next, FALSE)

\* The type of each field, in declaration order.
FieldTypes == <<"VecString", "VecVecString", "VecString", "VecString">>

\* The derived __Field visitor: the index of a known key, 0 for any other.
FieldIndex(key) ==
    IF \E n \in 1..4 : FieldKeys[n] = key
    THEN CHOOSE n \in 1..4 : FieldKeys[n] = key
    ELSE 0

\* The struct built from its four field values.
BuildProof(vals) ==
    [pi_a |-> vals[1], pi_b |-> vals[2], pi_c |-> vals[3], public_signals |-> vals[4]]

\* The derived visit_map after the '{': members in any order, an unknown key
\* skipped with its value, a known key refused the second time, and every
\* field required at the '}'.
RECURSIVE VisitMap(_, _, _, _)
VisitMap(d, i0, first, fields) ==
    LET i == SkipWhitespace(d, i0)
        j == IF first THEN i ELSE SkipWhitespace(d, i + 1)
        k == ParseStr(d, j + 1, <<>>)
        c == SkipWhitespace(d, k.next)
        n == FieldIndex(k.val)
        v == Deserialize(IF n = 0 THEN "IgnoredAny" ELSE FieldTypes[n], d, c + 1)
    IN  IF i > Len(d) THEN Fail("Eof")
        ELSE IF d[i] = "}"
        THEN IF \E m \in 1..4 : ~fields[m].some THEN Fail("Data")
             ELSE Done(BuildProof([m \in 1..4 |-> fields[m].val]), i + 1)
        ELSE IF ~first /\ d[i] # "," THEN Fail("Syntax")
        ELSE IF j > Len(d) THEN Fail("Eof")
        ELSE IF d[j] # QuoteChar THEN Fail("Syntax")
        ELSE IF ~k.ok THEN k
        ELSE IF n # 0 /\ fields[n].some THEN Fail("Data")
        ELSE IF c > Len(d) THEN Fail("Eof")
        ELSE IF d[c] # ":" THEN Fail("Syntax")
        ELSE IF ~v.ok THEN v
        ELSE VisitMap(d, v.next, FALSE,
                      IF n = 0 THEN fields
                      ELSE [fields EXCEPT ![n] = [some |-> TRUE, val |-> v.val]])

\* The derived visit_seq after the '[': the four values in declaration
\* order, then the ']'.
RECURSIVE VisitSeq(_, _, _, _)
VisitSeq(d, i0, n, vals) ==
    LET i == SkipWhitespace(d, i0)
        j == IF n = 1 THEN i ELSE SkipWhitespace(d, i + 1)
        e == Deserialize(FieldTypes[n], d, j)
    IN  IF i > Len(d) THEN Fail("Eof")
        ELSE IF n > 4
        THEN IF d[i] = "]" THEN Done(BuildProof(vals), i + 1) ELSE Fail("Syntax")
        ELSE IF d[i] = "]" THEN Fail("Data")
        ELSE IF n > 1 /\ d[i] # "," THEN Fail("Syntax")
        ELSE IF j > Len(d) THEN Fail("Eof")
        ELSE IF d[j] = "]" THEN Fail("Syntax")
        ELSE IF ~e.ok THEN e
        ELSE VisitSeq(d, e.next, n + 1, Append(vals, e.val))

\* deserialize_struct: an object goes to visit_map, an array to visit_seq.
DeserializeStruct(d) ==
    LET i == SkipWhitespace(d, 1)
    IN  IF i > Len(d) THEN Fail("Eof")
        ELSE IF d[i] = "{" THEN VisitMap(d, i + 1, TRUE,
                                      [n \in 1..4 |-> [some |-> FALSE, val |-> <<>>]])
        ELSE IF d[i] = "[" THEN VisitSeq(d, i + 1, 1, <<>>)
        ELSE PeekInvalidType(d, i)

\* serde_json::from_str: the value, then nothing but whitespace.
FromStr(d) ==
    LET r == DeserializeStruct(d)
    IN  IF ~r.ok THEN r
        ELSE IF SkipWhitespace(d, r.next) <= Len(d) THEN Fail("Syntax")
        ELSE r

\* from_json with a data error passed on as InvalidFieldElement.
FromJson_DataErrorKind(json_str) ==
    LET r == FromStr(json_str)
    IN  IF r.ok THEN Ok(r.val)
        ELSE IF r.cat = "Data" THEN Err(InvalidFieldElement(r.cat))
        ELSE Err(JsonParseError(r.cat))

\* SnarkJSProof::from_json.
FromJson(json_str) ==
    LET r == FromStr(json_str)
    IN  IF r.ok THEN Ok(r.val) ELSE Err(JsonParseError(r.cat))

(***************************************************************************)
(* Inputs.                                                                 *)
(***************************************************************************)
SeqsUpTo(S, n) == UNION {[1..k -> S] : k \in 0..n}

Fill(n, s) == [i \in 1..n |-> s]

\* Every string over Alphabet up to MaxStrLen, and some longer ones.
LongStrings ==
    { <<"\"", "0", "x", "D", "0", "\"">>,
      <<"\"", "\"", "1", "1", "\"", "\"">>,
      <<"0", "x", "0", "1", "0", "0">>,
      <<"0", "X", "d", "D", "0", "d">>,
      <<"0", "x", "D", "0", "D">>,
      <<"2", "0", "8">>,
      <<"6", "5", "5", "3", "6">>,
      <<"0", "x", "f", "g">>,
      <<"1", "_", "0", "_", "0">>,
      <<"\"", "0", "x", "7", "\"">> }

Strings == SeqsUpTo(Alphabet, MaxStrLen) \cup LongStrings

\* Coordinate strings: zero, a value in [r, p), and one undecodable string
\* for each of pi_a, pi_b and pi_c.
CoordZero == <<"0">>

CoordBig == <<"\"", "1", "2", "\"">>

BadA == <<"0", "x", "7">>

BadB == <<"-", "1">>

BadC == <<"\"", "x", "\"">>

\* An undecodable public-signal string.
SignalBad == <<"1", " ">>

\* Proofs of the right shape, over every choice of coordinate strings.
ShapedProofs ==
    [pi_a : [1..2 -> {CoordZero, CoordBig, BadA}],
     pi_b : [1..2 -> [1..2 -> {CoordZero, CoordBig, BadB}]],
     pi_c : [1..2 -> {CoordZero, CoordBig, BadC}],
     public_signals : SeqsUpTo({CoordBig, SignalBad}, MaxSignals)]

\* Proofs of every shape: vectors and rows of 0..MaxVec equal strings.
Vecs == {Fill(n, s) : n \in 0..MaxVec, s \in {CoordBig, BadA}}

Rows == {Fill(n, CoordBig) : n \in 0..MaxVec} \cup {<<BadB>>, <<CoordBig, BadB>>}

RaggedProofs ==
    [pi_a : Vecs,
     pi_b : SeqsUpTo(Rows, MaxVec),
     pi_c : Vecs,
     public_signals : {<<>>, <<SignalBad>>}]

\* Coordinate strings for the point parsers called alone: short strings,
\* and hex and quoted numbers at and above the characteristic.
PointStrings ==
    SeqsUpTo({"0", "1", "3", "x", "\""}, 2)
        \cup {<<"0", "x", "1", "A">>, <<"0", "X", "0", "d">>, CoordBig}

\* pi_b values for parse_g2_point called alone.
G2Coords == [1..2 -> [1..2 -> {CoordZero, <<"1">>, <<"1", "3">>, CoordBig}]]

\* Public-signal strings that decode, to different elements.
SignalSmall == <<"0", "x", "0", "7">>

\* Proofs with good coordinates, over every choice of public signals.
SignalProofs ==
    [pi_a : {<<CoordZero, CoordBig>>},
     pi_b : {<<<<CoordBig, CoordZero>>, <<CoordZero, CoordZero>>>>},
     pi_c : {<<CoordZero, CoordZero>>},
     public_signals : SeqsUpTo({CoordBig, SignalSmall, SignalBad}, MaxSignals)]

Proofs == ShapedProofs \cup RaggedProofs \cup SignalProofs

(***************************************************************************)
(* Inputs of the wire codec.                                               *)
(***************************************************************************)
\* RawProofs to serialize: vectors of every length up to two, over strings
\* with a hex prefix, leading zeros, quotes, a backslash, a line feed and
\* no character at all.
WireHex == <<"0", "x", "D", "0">>

WireZeros == <<"0", "0", "7">>

WireEscapes == <<Backslash, "n", Newline>>

WireProofs ==
    [pi_a : SeqsUpTo({WireHex, WireZeros}, 2),
     pi_b : SeqsUpTo({<<>>, <<CoordBig>>, <<WireHex, WireEscapes>>}, 2),
     pi_c : {<<>>, <<WireEscapes>>, <<WireZeros, <<>>>>},
     public_signals : SeqsUpTo({CoordBig, WireZeros}, MaxSignals)]

\* A JSON value text, with the field types it is a value of.
ValueText(text, fits) == [text |-> text, fits |-> fits]

GoodVec == ValueText(WriteVecString(<<<<"1">>, WireHex>>), {"VecString"})

GoodVecVec ==
    ValueText(WriteVecVecString(<<<<<<"1">>, <<"0">>>>, <<<<"2">>, <<"0">>>>>>),
              {"VecVecString"})

EmptyVec == ValueText(<<"[", "]">>, {"VecString", "VecVecString"})

NumberElement == ValueText(<<"[", "1", ",", QuoteChar, "2", QuoteChar, "]">>, {})

BareString == ValueText(<<QuoteChar, "1", "2", QuoteChar>>, {})

NullValue == ValueText(<<"n", "u", "l", "l">>, {})

NestedValue ==
    ValueText(<<"{", QuoteChar, "a", QuoteChar, ":", "[", "-", "1", ",",
                "t", "r", "u", "e", "]", "}">>, {})

Member(key, val) == [key |-> key, val |-> val]

KeyProtocol == <<"p", "r", "o", "t", "o", "c", "o", "l">>

\* The four members as the toolkit writes them.
CanonicalMembers ==
    <<Member(KeyPiA, GoodVec), Member(KeyPiB, GoodVecVec),
      Member(KeyPiC, GoodVec), Member(KeyPublicSignals, GoodVec)>>

Without(ms, k) == SubSeq(ms, 1, k - 1) \o SubSeq(ms, k + 1, Len(ms))

\* Member lists: the canonical one, reordered, with members the struct does
\* not know, with a member missing, doubled, renamed or of another type.
MemberLists ==
    {CanonicalMembers, [k \in 1..4 |-> CanonicalMembers[5 - k]], <<>>}
        \cup {<<Member(KeyProtocol, v)>> \o CanonicalMembers :
                 v \in {BareString, NestedValue, NullValue}}
        \cup {CanonicalMembers \o <<Member(KeyProtocol, NestedValue),
                                    Member(KeyProtocol, NumberElement)>>}
        \cup {Without(CanonicalMembers, k) : k \in 1..4}
        \cup {Append(CanonicalMembers, CanonicalMembers[k]) : k \in 1..4}
        \cup {[CanonicalMembers EXCEPT ![4].key =
                 <<"p", "u", "b", "l", "i", "c", "_", "s", "i", "g", "n", "a", "l", "s">>]}
        \cup {[CanonicalMembers EXCEPT ![k].val = v] :
                 k \in 1..4,
                 v \in {GoodVec, GoodVecVec, EmptyVec, NumberElement,
                        BareString, NullValue}}

\* Value lists for the array form: the four values, too few, too many, and
\* out of order.
ValueLists ==
    {CanonicalMembers, Without(CanonicalMembers, 4), <<>>,
     Append(CanonicalMembers, CanonicalMembers[4]),
     <<CanonicalMembers[2], CanonicalMembers[1], CanonicalMembers[3],
       CanonicalMembers[4]>>,
     [CanonicalMembers EXCEPT ![2].val = EmptyVec],
     [CanonicalMembers EXCEPT ![4].val = NumberElement]}

\* Whitespace between tokens, and text after the value.
Separators == {<<>>, <<" ">>, <<Newline, " ", " ">>}

Tails == {<<>>, <<" ", Newline>>, <<"x">>, <<"}">>, <<",">>}

\* The text of a document description, before it is cut.
RenderFull(ds) ==
    LET sep  == ds.sep
        item == [k \in 1..Len(ds.members) |->
                    sep \o (IF ds.form = "object"
                            THEN WriteString(ds.members[k].key) \o sep \o <<":">> \o sep
                            ELSE <<>>)
                        \o ds.members[k].val.text \o sep]
    IN  CASE ds.form = "object" -> <<"{">> \o JoinComma(item) \o <<"}">> \o ds.tail
          [] ds.form = "array"  -> <<"[">> \o JoinComma(item) \o <<"]">> \o ds.tail
          [] OTHER              -> ds.members[1].val.text \o ds.tail

\* The text of a document description: the first cut characters.
Render(ds) == SubSeq(RenderFull(ds), 1, ds.cut)

\* The canonical documents cut short, at every length.
CutShort(ds) ==
    {[form |-> ds.form, members |-> ds.members, sep |-> ds.sep, tail |-> ds.tail,
      cut |-> n] : n \in 0..(Len(RenderFull(ds)) - 1)}

\* The documents: whole ones of every form, and the canonical object and
\* array cut short.
DocSpecs ==
    LET uncut ==
            [form : {"object"}, members : MemberLists, sep : Separators,
             tail : Tails, cut : {0}]
                \cup [form : {"array"}, members : ValueLists, sep : Separators,
                      tail : Tails, cut : {0}]
                \cup [form : {"scalar"},
                      members : {<<Member(<<>>, v)>> :
                                    v \in {BareString, NullValue,
                                           ValueText(<<"1", "2">>, {}),
                                           ValueText(<<"t", "r", "u", "e">>, {})}},
                      sep : {<<>>}, tail : {<<>>}, cut : {0}]
    IN  {[ds EXCEPT !.cut = Len(RenderFull(ds))] : ds \in uncut}
            \cup UNION {CutShort([form |-> f, members |-> CanonicalMembers,
                                  sep |-> <<" ">>, tail |-> <<>>, cut |-> 0]) :
                            f \in {"object", "array"}}

(***************************************************************************)
(* The publisher contract of contracts/publisher/src/lib.rs.  A call that  *)
(* panics (assert!, require!, expect) reverts: it leaves no state change   *)
(* and creates no promise.  A call that returns commits its state, and     *)
(* the promise it returns is scheduled.                                    *)
(***************************************************************************)
None == [some |-> FALSE]

Some(v) == [some |-> TRUE, val |-> v]

\* The outcome of a call: reverted, or the new contract state and the value
\* or promise returned.
Reverted == [ok |-> FALSE]

Committed(self, out) == [ok |-> TRUE, self |-> self, out |-> out]

\* A call that returns nothing.
Unit == [unit |-> TRUE]

\* Promise::new(account).transfer(amount).
Transfer(account, amount) == [action |-> "transfer", to |-> account, amount |-> amount]

\* Accounts: the account that deploys the contracts, two users, and the
\* accounts the agent, verifier and publisher contracts are deployed at.
OwnerAccount == "owner"

AgentContractAccount == "agent"

VerifierAccount == "verifier"

PublisherAccount == "publisher"

Users == {"alice", "bob"}

\* The accounts that call the publisher; with the owner, the accounts.
PublisherCallers == Users \cup {AgentContractAccount}

\* Contract::new, called by predecessor.
PublisherNew(predecessor, verifier_contract) ==
    [owner                 |-> predecessor,
     verifier_contract     |-> verifier_contract,
     next_request_id       |-> 1,
     requests              |-> <<>>,
     requests_by_requester |-> [a \in PublisherCallers \cup {OwnerAccount} |-> <<>>],
     min_deposit           |-> MinDepositDefault,
     request_timeout       |-> RequestTimeoutDefault,
     trusted_solvers       |-> <<>>]

\* request_prediction taking any deposit.
RequestPrediction_AnyDeposit(self, now, predecessor, deposit, asset, timeframe, zk_required, overflow_checks) ==
    LET request_id == self.next_request_id
        expires_at == now + self.request_timeout
        request == [request_id      |-> request_id,
                    requester       |-> predecessor,
                    asset           |-> asset,
                    timeframe       |-> timeframe,
                    zk_required     |-> zk_required,
                    deposit         |-> deposit,
                    status          |-> "Pending",
                    created_at      |-> now,
                    expires_at      |-> expires_at % U64Modulus,
                    solver          |-> None,
                    predicted_price |-> None,
                    zk_verified     |-> None]
    IN  IF expires_at >= U64Modulus /\ overflow_checks THEN Reverted
        ELSE Committed(
                 [self EXCEPT !.next_request_id = @ + 1,
                              !.requests = Append(@, request),
                              !.requests_by_requester[predecessor] =
                                  Append(@, request_id)],
                 [u64 |-> request_id])

\* request_prediction with deposit attached, at block time now.  Request
\* ids are handed out in sequence from 1, so requests is a sequence.  When
\* now + request_timeout leaves u64, a build with overflow checks panics
\* and one without wraps.
RequestPrediction(self, now, predecessor, deposit, asset, timeframe, zk_required, overflow_checks) ==
    LET request_id == self.next_request_id
        expires_at == now + self.request_timeout
        request == [request_id      |-> request_id,
                    requester       |-> predecessor,
                    asset           |-> asset,
                    timeframe       |-> timeframe,
                    zk_required     |-> zk_required,
                    deposit         |-> deposit,
                    status          |-> "Pending",
                    created_at      |-> now,
                    expires_at      |-> expires_at % U64Modulus,
                    solver          |-> None,
                    predicted_price |-> None,
                    zk_verified     |-> None]
    IN  IF ~(deposit >= self.min_deposit) THEN Reverted
        ELSE IF expires_at >= U64Modulus /\ overflow_checks THEN Reverted
        ELSE Committed(
                 [self EXCEPT !.next_request_id = @ + 1,
                              !.requests = Append(@, request),
                              !.requests_by_requester[predecessor] =
                                  Append(@, request_id)],
                 [u64 |-> request_id])

\* zk_verified decided by the configured verifier alone.
ZkVerified_VerifierOnly(self, request, zk_proof) ==
    IF request.zk_required
    THEN IF ~zk_proof.some THEN None
         ELSE Some(self.verifier_contract.some)
    ELSE Some(TRUE)

\* The zk_verified value both fulfilment paths compute; reverts (no value)
\* when a proof is required and none is given.
ZkVerified(self, request, zk_proof) ==
    IF request.zk_required
    THEN IF ~zk_proof.some THEN None
         ELSE Some(self.verifier_contract.some \/ Len(zk_proof.val) # 0)
    ELSE Some(TRUE)

\* The request with the fulfilment fields set.
Fulfilled(request, solver, predicted_price, zk_verified) ==
    [request EXCEPT !.status = "Fulfilled",
                    !.solver = Some(solver),
                    !.predicted_price = Some(predicted_price),
                    !.zk_verified = Some(zk_verified)]

\* fulfill_prediction without the expiry check.
FulfillPrediction_NoExpiry(self, now, predecessor, request_id, predicted_price, zk_proof) ==
    LET solver      == predecessor
        request     == self.requests[request_id]
        zk_verified == ZkVerified(self, request, zk_proof)
    IN  IF /\ Len(self.trusted_solvers) # 0
           /\ ~(\E i \in 1..Len(self.trusted_solvers) : self.trusted_solvers[i] = solver)
        THEN Reverted
        ELSE IF request_id \notin DOMAIN self.requests THEN Reverted
        ELSE IF request.status # "Pending" THEN Reverted
        ELSE IF ~(solver # request.requester) THEN Reverted
        ELSE IF ~zk_verified.some THEN Reverted
        ELSE Committed(
                 [self EXCEPT !.requests[request_id] =
                     Fulfilled(request, solver, predicted_price, zk_verified.val)],
                 Transfer(solver, request.deposit))

\* fulfill_prediction.
FulfillPrediction(self, now, predecessor, request_id, predicted_price, zk_proof) ==
    LET solver      == predecessor
        request     == self.requests[request_id]
        zk_verified == ZkVerified(self, request, zk_proof)
    IN  IF /\ Len(self.trusted_solvers) # 0
           /\ ~(\E i \in 1..Len(self.trusted_solvers) : self.trusted_solvers[i] = solver)
        THEN Reverted
        ELSE IF request_id \notin DOMAIN self.requests THEN Reverted
        ELSE IF request.status # "Pending" THEN Reverted
        ELSE IF ~(now <= request.expires_at) THEN Reverted
        ELSE IF ~(solver # request.requester) THEN Reverted
        ELSE IF ~zk_verified.some THEN Reverted
        ELSE Committed(
                 [self EXCEPT !.requests[request_id] =
                     Fulfilled(request, solver, predicted_price, zk_verified.val)],
                 Transfer(solver, request.deposit))

\* cancel_request leaving the request Pending.
CancelRequest_StaysPending(self, predecessor, request_id) ==
    LET caller  == predecessor
        request == self.requests[request_id]
    IN  IF request_id \notin DOMAIN self.requests THEN Reverted
        ELSE IF ~(caller = request.requester) THEN Reverted
        ELSE IF request.status # "Pending" THEN Reverted
        ELSE Committed(self, Transfer(caller, request.deposit))

\* cancel_request open to every caller.
CancelRequest_AnyCaller(self, predecessor, request_id) ==
    LET caller  == predecessor
        request == self.requests[request_id]
    IN  IF request_id \notin DOMAIN self.requests THEN Reverted
        ELSE IF request.status # "Pending" THEN Reverted
        ELSE Committed(
                 [self EXCEPT !.requests[request_id].status = "Cancelled"],
                 Transfer(caller, request.deposit))

\* cancel_request.
CancelRequest(self, predecessor, request_id) ==
    LET caller  == predecessor
        request == self.requests[request_id]
    IN  IF request_id \notin DOMAIN self.requests THEN Reverted
        ELSE IF ~(caller = request.requester) THEN Reverted
        ELSE IF request.status # "Pending" THEN Reverted
        ELSE Committed(
                 [self EXCEPT !.requests[request_id].status = "Cancelled"],
                 Transfer(caller, request.deposit))

\* fulfill_prediction_via_agent without the status check.
FulfillPredictionViaAgent_AnyStatus(self, now, predecessor, request_id, predicted_price, zk_proof, agent_contract) ==
    LET caller      == predecessor
        request     == self.requests[request_id]
        zk_verified == ZkVerified(self, request, zk_proof)
    IN  IF ~(caller = agent_contract) THEN Reverted
        ELSE IF request_id \notin DOMAIN self.requests THEN Reverted
        ELSE IF ~(now <= request.expires_at) THEN Reverted
        ELSE IF ~zk_verified.some THEN Reverted
        ELSE Committed(
                 [self EXCEPT !.requests[request_id] =
                     Fulfilled(request, caller, predicted_price, zk_verified.val)],
                 Transfer(caller, request.deposit))

\* fulfill_prediction_via_agent.
FulfillPredictionViaAgent(self, now, predecessor, request_id, predicted_price, zk_proof, agent_contract) ==
    LET caller      == predecessor
        request     == self.requests[request_id]
        zk_verified == ZkVerified(self, request, zk_proof)
    IN  IF ~(caller = agent_contract) THEN Reverted
        ELSE IF request_id \notin DOMAIN self.requests THEN Reverted
        ELSE IF request.status # "Pending" THEN Reverted
        ELSE IF ~(now <= request.expires_at) THEN Reverted
        ELSE IF ~zk_verified.some THEN Reverted
        ELSE Committed(
                 [self EXCEPT !.requests[request_id] =
                     Fulfilled(request, caller, predicted_price, zk_verified.val)],
                 Transfer(caller, request.deposit))

\* set_verifier_contract.
SetVerifierContract(self, predecessor, verifier) ==
    IF ~(predecessor = self.owner) THEN Reverted
    ELSE Committed([self EXCEPT !.verifier_contract = verifier], Unit)

\* set_min_deposit open to every caller.
SetMinDeposit_AnyCaller(self, predecessor, min_deposit) ==
    Committed([self EXCEPT !.min_deposit = min_deposit], Unit)

\* set_min_deposit.
SetMinDeposit(self, predecessor, min_deposit) ==
    IF ~(predecessor = self.owner) THEN Reverted
    ELSE Committed([self EXCEPT !.min_deposit = min_deposit], Unit)

\* set_request_timeout.
SetRequestTimeout(self, predecessor, timeout) ==
    IF ~(predecessor = self.owner) THEN Reverted
    ELSE Committed([self EXCEPT !.request_timeout = timeout], Unit)

\* add_trusted_solver: pushed unless already there.
AddTrustedSolver(self, predecessor, solver) ==
    IF ~(predecessor = self.owner) THEN Reverted
    ELSE IF ~(\E i \in 1..Len(self.trusted_solvers) : self.trusted_solvers[i] = solver)
    THEN Committed([self EXCEPT !.trusted_solvers = Append(@, solver)], Unit)
    ELSE Committed(self, Unit)

\* remove_trusted_solver: retain(|s| s != &solver).
RemoveTrustedSolver(self, predecessor, solver) ==
    IF ~(predecessor = self.owner) THEN Reverted
    ELSE Committed([self EXCEPT !.trusted_solvers =
                       SelectSeq(@, LAMBDA s : s # solver)], Unit)

(***************************************************************************)
(* The Shade agent contract of contracts/agent/src/lib.rs.                 *)
(***************************************************************************)
AllowedAction(contract_id, method_name) ==
    [contract_id |-> contract_id, method_name |-> method_name]

\* Promise::new(target).function_call(method, args, 0 yoctoNEAR, 50 Tgas).
FunctionCall(target, method_name, args) ==
    [action |-> "function_call", to |-> target, method_name |-> method_name,
     args |-> args]

\* AgentContract::new, called by predecessor.
AgentNew(predecessor, publisher_contract) ==
    [owner                 |-> predecessor,
     agent                 |-> None,
     allowed_actions       |->
         IF publisher_contract.some
         THEN <<AllowedAction(publisher_contract.val, "fulfill_prediction"),
                AllowedAction(publisher_contract.val, "fulfill_prediction_via_agent")>>
         ELSE <<>>,
     publisher_contract    |-> publisher_contract,
     signature_count       |-> 0,
     last_action_timestamp |-> 0]

\* register_agent open to every caller.
RegisterAgent_AnyCaller(self, now, predecessor, code_hash, attestation_quote, tee_type) ==
    Committed([self EXCEPT !.agent =
                  Some([agent_account     |-> predecessor,
                        code_hash         |-> code_hash,
                        attestation_quote |-> attestation_quote,
                        tee_type          |-> tee_type,
                        registered_at     |-> now])],
              Unit)

\* register_agent.
RegisterAgent(self, now, predecessor, code_hash, attestation_quote, tee_type) ==
    LET caller == predecessor
    IN  IF ~(caller = self.owner \/ ~self.agent.some) THEN Reverted
        ELSE Committed(
                 [self EXCEPT !.agent =
                     Some([agent_account     |-> caller,
                           code_hash         |-> code_hash,
                           attestation_quote |-> attestation_quote,
                           tee_type          |-> tee_type,
                           registered_at     |-> now])],
                 Unit)

\* allowed_actions.iter().any(..) matching the target contract alone.
IsAllowed_AnyMethod(self, target_contract, method_name) ==
    \E i \in 1..Len(self.allowed_actions) :
        self.allowed_actions[i].contract_id = target_contract

\* allowed_actions.iter().any(|a| a.contract_id == .. && a.method_name == ..).
IsAllowed(self, target_contract, method_name) ==
    \E i \in 1..Len(self.allowed_actions) :
        /\ self.allowed_actions[i].contract_id = target_contract
        /\ self.allowed_actions[i].method_name = method_name

\* request_signature.
RequestSignature(self, now, predecessor, target_contract, method_name, args) ==
    LET caller == predecessor
    IN  IF ~self.agent.some THEN Reverted
        ELSE IF ~(caller = self.agent.val.agent_account) THEN Reverted
        ELSE IF ~IsAllowed(self, target_contract, method_name) THEN Reverted
        ELSE Committed(
                 [self EXCEPT !.signature_count = @ + 1,
                              !.last_action_timestamp = now],
                 FunctionCall(target_contract, method_name, args))

\* add_allowed_action.
AddAllowedAction(self, predecessor, contract_id, method_name) ==
    IF ~(predecessor = self.owner) THEN Reverted
    ELSE IF ~IsAllowed(self, contract_id, method_name)
    THEN Committed(
             [self EXCEPT !.allowed_actions =
                 Append(@, AllowedAction(contract_id, method_name))],
             Unit)
    ELSE Committed(self, Unit)

RECURSIVE Retain(_, _, _)
Retain(actions, contract_id, method_name) ==
    IF Len(actions) = 0 THEN <<>>
    ELSE (IF ~(Head(actions).contract_id = contract_id
                /\ Head(actions).method_name = method_name)
          THEN <<Head(actions)>> ELSE <<>>)
             \o Retain(Tail(actions), contract_id, method_name)

\* remove_allowed_action.
RemoveAllowedAction(self, predecessor, contract_id, method_name) ==
    IF ~(predecessor = self.owner) THEN Reverted
    ELSE Committed(
             [self EXCEPT !.allowed_actions = Retain(@, contract_id, method_name)],
             Unit)

\* set_publisher_contract.
SetPublisherContract(self, predecessor, publisher_id) ==
    IF ~(predecessor = self.owner) THEN Reverted
    ELSE Committed([self EXCEPT !.publisher_contract = Some(publisher_id)], Unit)

(***************************************************************************)
(* The state machine: a caller hands one input to one of the functions and *)
(* gets its result.  reads lists the strings the call handed to the        *)
(* field-element decoders, in order.                                       *)
(***************************************************************************)
Idle == [fn |-> "idle"]

Tx(method, caller, args, out) ==
    [method |-> method, caller |-> caller, args |-> args, out |-> out]

\* No parser call in progress.
VerifierIdle ==
    /\ call = Idle
    /\ ret = Panic
    /\ reads = <<>>

\* Both contracts deployed by the owner, at block time 0.
Deployed(verifier_contract, publisher_contract) ==
    /\ publisher = PublisherNew(OwnerAccount, verifier_contract)
    /\ shade_agent = AgentNew(OwnerAccount, publisher_contract)
    /\ block_timestamp = 0
    /\ promises = <<>>
    /\ tx = Tx("new", OwnerAccount,
               [verifier_contract |-> verifier_contract,
                publisher_contract |-> publisher_contract], Unit)

Init ==
    /\ VerifierIdle
    /\ Deployed(None, None)

CallParseFqElement ==
    /\ call = Idle
    /\ \E s \in Strings :
          /\ call' = [fn |-> "parse_fq_element", arg |-> s]
          /\ ret' = ParseFqElement(s)
          /\ reads' = <<s>>
    /\ UNCHANGED ledgerVars

CallParseFrElement ==
    /\ call = Idle
    /\ \E s \in Strings :
          /\ call' = [fn |-> "parse_fr_element", arg |-> s]
          /\ ret' = ParseFrElement(s)
          /\ reads' = <<s>>
    /\ UNCHANGED ledgerVars

CallToArkworksProof ==
    /\ call = Idle
    /\ \E p \in Proofs :
          LET r == ToArkworksProof(p)
          IN  /\ call' = [fn |-> "to_arkworks_proof", arg |-> p]
              /\ ret' = r.ret
              /\ reads' = r.reads
    /\ UNCHANGED ledgerVars

CallParseG1Point ==
    /\ call = Idle
    /\ \E x_str \in PointStrings, y_str \in PointStrings :
          LET r == ParseG1Point(x_str, y_str)
          IN  /\ call' = [fn |-> "parse_g1_point", arg |-> <<x_str, y_str>>]
              /\ ret' = r.ret
              /\ reads' = r.reads
    /\ UNCHANGED ledgerVars

CallParseG2Point ==
    /\ call = Idle
    /\ \E coords \in G2Coords :
          LET r == ParseG2Point(coords)
          IN  /\ call' = [fn |-> "parse_g2_point", arg |-> coords]
              /\ ret' = r.ret
              /\ reads' = r.reads
    /\ UNCHANGED ledgerVars

\* serde_json::to_string(&proof); the String returned is held as a record
\* of its characters.
CallToString ==
    /\ call = Idle
    /\ \E p \in WireProofs :
          /\ call' = [fn |-> "to_string", arg |-> p]
          /\ ret' = Ok([json |-> ToJsonString(p)])
          /\ reads' = <<>>
    /\ UNCHANGED ledgerVars

\* from_json on a document from outside.
CallFromJson ==
    /\ call = Idle
    /\ \E ds \in DocSpecs :
          /\ call' = [fn |-> "from_json", arg |-> Render(ds),
                      src |-> "document", made |-> ds]
          /\ ret' = FromJson(Render(ds))
          /\ reads' = <<>>
    /\ UNCHANGED ledgerVars

\* from_json on the text to_string has just returned.
CallFromJsonOfString ==
    /\ call.fn = "to_string"
    /\ call' = [fn |-> "from_json", arg |-> ret.val.json,
                src |-> "to_string", made |-> call.arg]
    /\ ret' = FromJson(ret.val.json)
    /\ reads' = <<>>
    /\ UNCHANGED ledgerVars

Return ==
    /\ call # Idle
    /\ call' = Idle
    /\ ret' = Panic
    /\ reads' = <<>>
    /\ UNCHANGED ledgerVars

(***************************************************************************)
(* Calls of the publisher.  tx is the last transaction that committed,     *)
(* promises the promises scheduled so far, block_timestamp the block time  *)
(* in seconds.                                                             *)
(***************************************************************************)
RequestIds == 1..(MaxRequests + 1)

\* zk_proof arguments: none, an empty blob, a blob of one byte.
ZkProofs == {None, Some(<<>>), Some(<<1>>)}

CallRequestPrediction ==
    /\ publisher.next_request_id <= MaxRequests
    /\ \E caller \in PublisherCallers, deposit \in 0..(MinDepositDefault + 1),
          asset \in {"NEAR"}, timeframe \in {"1h"}, zk_required \in BOOLEAN,
          overflow_checks \in BOOLEAN :
          LET r == RequestPrediction(publisher, block_timestamp, caller, deposit,
                                     asset, timeframe, zk_required, overflow_checks)
          IN  /\ r.ok
              /\ publisher' = r.self
              /\ tx' = Tx("request_prediction", caller,
                          [deposit |-> deposit, zk_required |-> zk_required], r.out)
              /\ UNCHANGED promises
    /\ UNCHANGED <<block_timestamp, shade_agent, verifierVars>>

CallFulfillPrediction ==
    /\ \E caller \in PublisherCallers, request_id \in RequestIds,
          predicted_price \in {7}, zk_proof \in ZkProofs :
          LET r == FulfillPrediction(publisher, block_timestamp, caller, request_id,
                                     predicted_price, zk_proof)
          IN  /\ r.ok
              /\ publisher' = r.self
              /\ promises' = Append(promises, r.out)
              /\ tx' = Tx("fulfill_prediction", caller,
                          [request_id |-> request_id, zk_proof |-> zk_proof], r.out)
    /\ UNCHANGED <<block_timestamp, shade_agent, verifierVars>>

CallFulfillPredictionViaAgent ==
    /\ \E caller \in PublisherCallers, request_id \in RequestIds,
          predicted_price \in {7}, zk_proof \in ZkProofs,
          agent_contract \in PublisherCallers :
          LET r == FulfillPredictionViaAgent(publisher, block_timestamp, caller,
                                             request_id, predicted_price, zk_proof,
                                             agent_contract)
          IN  /\ r.ok
              /\ publisher' = r.self
              /\ promises' = Append(promises, r.out)
              /\ tx' = Tx("fulfill_prediction_via_agent", caller,
                          [request_id |-> request_id, zk_proof |-> zk_proof,
                           agent_contract |-> agent_contract], r.out)
    /\ UNCHANGED <<block_timestamp, shade_agent, verifierVars>>

CallCancelRequest ==
    /\ \E caller \in PublisherCallers, request_id \in RequestIds :
          LET r == CancelRequest(publisher, caller, request_id)
          IN  /\ r.ok
              /\ publisher' = r.self
              /\ promises' = Append(promises, r.out)
              /\ tx' = Tx("cancel_request", caller, [request_id |-> request_id], r.out)
    /\ UNCHANGED <<block_timestamp, shade_agent, verifierVars>>

\* The owner's setters, called by the owner and by the users.
CallSetVerifierContract ==
    /\ \E caller \in Users \cup {OwnerAccount}, verifier \in {None, Some(VerifierAccount)} :
          LET r == SetVerifierContract(publisher, caller, verifier)
          IN  /\ r.ok
              /\ publisher' = r.self
              /\ tx' = Tx("set_verifier_contract", caller, [verifier |-> verifier], r.out)
    /\ UNCHANGED <<promises, block_timestamp, shade_agent, verifierVars>>

CallSetMinDeposit ==
    /\ \E caller \in Users \cup {OwnerAccount},
          min_deposit \in {MinDepositDefault, MinDepositDefault + 1} :
          LET r == SetMinDeposit(publisher, caller, min_deposit)
          IN  /\ r.ok
              /\ publisher' = r.self
              /\ tx' = Tx("set_min_deposit", caller, [min_deposit |-> min_deposit], r.out)
    /\ UNCHANGED <<promises, block_timestamp, shade_agent, verifierVars>>

\* Timeouts: none, the default, and the largest u64.
CallSetRequestTimeout ==
    /\ \E caller \in Users \cup {OwnerAccount},
          timeout \in {0, RequestTimeoutDefault, U64Modulus - 1} :
          LET r == SetRequestTimeout(publisher, caller, timeout)
          IN  /\ r.ok
              /\ publisher' = r.self
              /\ tx' = Tx("set_request_timeout", caller, [timeout |-> timeout], r.out)
    /\ UNCHANGED <<promises, block_timestamp, shade_agent, verifierVars>>

CallAddTrustedSolver ==
    /\ \E caller \in Users \cup {OwnerAccount}, solver \in Users :
          LET r == AddTrustedSolver(publisher, caller, solver)
          IN  /\ r.ok
              /\ publisher' = r.self
              /\ tx' = Tx("add_trusted_solver", caller, [solver |-> solver], r.out)
    /\ UNCHANGED <<promises, block_timestamp, shade_agent, verifierVars>>

CallRemoveTrustedSolver ==
    /\ \E caller \in Users \cup {OwnerAccount}, solver \in Users :
          LET r == RemoveTrustedSolver(publisher, caller, solver)
          IN  /\ r.ok
              /\ publisher' = r.self
              /\ tx' = Tx("remove_trusted_solver", caller, [solver |-> solver], r.out)
    /\ UNCHANGED <<promises, block_timestamp, shade_agent, verifierVars>>

\* A block later.
Tick ==
    /\ block_timestamp < MaxTimestamp
    /\ block_timestamp' = block_timestamp + 1
    /\ UNCHANGED <<publisher, shade_agent, promises, tx, verifierVars>>

(***************************************************************************)
(* Calls of the agent contract.                                            *)
(***************************************************************************)
\* The accounts that call the agent contract: its owner and the two users,
\* one of which runs the TEE agent.
AgentCallers == Users \cup {OwnerAccount}

TargetContracts == {PublisherAccount, VerifierAccount}

MethodNames == {"fulfill_prediction", "fulfill_prediction_via_agent", "cancel_request"}

CallRegisterAgent ==
    /\ \E caller \in AgentCallers, code_hash \in {"sha256:c0de"},
          attestation_quote \in {Some("quote")}, tee_type \in {"tdx"} :
          LET r == RegisterAgent(shade_agent, block_timestamp, caller, code_hash,
                                 attestation_quote, tee_type)
          IN  /\ r.ok
              /\ shade_agent' = r.self
              /\ tx' = Tx("register_agent", caller,
                          [attestation_quote |-> attestation_quote], r.out)
    /\ UNCHANGED <<promises, block_timestamp, publisher, verifierVars>>

CallRequestSignature ==
    /\ shade_agent.signature_count < MaxSignatures
    /\ \E caller \in AgentCallers, target_contract \in TargetContracts,
          method_name \in MethodNames, args \in {"{}"} :
          LET r == RequestSignature(shade_agent, block_timestamp, caller,
                                    target_contract, method_name, args)
          IN  /\ r.ok
              /\ shade_agent' = r.self
              /\ promises' = Append(promises, r.out)
              /\ tx' = Tx("request_signature", caller,
                          [target_contract |-> target_contract,
                           method_name |-> method_name], r.out)
    /\ UNCHANGED <<block_timestamp, publisher, verifierVars>>

CallAddAllowedAction ==
    /\ \E caller \in AgentCallers, contract_id \in TargetContracts,
          method_name \in MethodNames :
          LET r == AddAllowedAction(shade_agent, caller, contract_id, method_name)
          IN  /\ r.ok
              /\ Len(r.self.allowed_actions) <= MaxAllowedActions
              /\ shade_agent' = r.self
              /\ tx' = Tx("add_allowed_action", caller,
                          [contract_id |-> contract_id, method_name |-> method_name],
                          r.out)
    /\ UNCHANGED <<promises, block_timestamp, publisher, verifierVars>>

CallRemoveAllowedAction ==
    /\ \E caller \in AgentCallers, contract_id \in TargetContracts,
          method_name \in MethodNames :
          LET r == RemoveAllowedAction(shade_agent, caller, contract_id, method_name)
          IN  /\ r.ok
              /\ shade_agent' = r.self
              /\ tx' = Tx("remove_allowed_action", caller,
                          [contract_id |-> contract_id, method_name |-> method_name],
                          r.out)
    /\ UNCHANGED <<promises, block_timestamp, publisher, verifierVars>>

CallSetPublisherContract ==
    /\ \E caller \in AgentCallers, publisher_id \in {PublisherAccount} :
          LET r == SetPublisherContract(shade_agent, caller, publisher_id)
          IN  /\ r.ok
              /\ shade_agent' = r.self
              /\ tx' = Tx("set_publisher_contract", caller,
                          [publisher |-> publisher_id], r.out)
    /\ UNCHANGED <<promises, block_timestamp, publisher, verifierVars>>

(***************************************************************************)
(* Specifications: the parser, the wire codec, the publisher and the agent *)
(* contract.                                                               *)
(***************************************************************************)
Next ==
    \/ CallParseFqElement
    \/ CallParseFrElement
    \/ CallToArkworksProof
    \/ CallParseG1Point
    \/ CallParseG2Point
    \/ Return

Spec == Init /\ [][Next]_vars

\* The wire codec alone.
NextWire ==
    \/ CallToString
    \/ CallFromJson
    \/ CallFromJsonOfString
    \/ Return

SpecWire == Init /\ [][NextWire]_vars

\* The publisher, deployed with or without a verifier contract.
InitPublisher ==
    /\ VerifierIdle
    /\ \E verifier_contract \in {None, Some(VerifierAccount)} :
          Deployed(verifier_contract, None)

NextPublisher ==
    \/ CallRequestPrediction
    \/ CallFulfillPrediction
    \/ CallFulfillPredictionViaAgent
    \/ CallCancelRequest
    \/ Tick

SpecPublisher == InitPublisher /\ [][NextPublisher]_vars

\* The publisher while its owner changes the configuration: one request
\* taken, at block time 0.
CallRequestPredictionOnce ==
    /\ publisher.next_request_id <= ConfigRequests
    /\ CallRequestPrediction

NextConfig ==
    \/ CallSetVerifierContract
    \/ CallSetMinDeposit
    \/ CallSetRequestTimeout
    \/ CallAddTrustedSolver
    \/ CallRemoveTrustedSolver
    \/ CallRequestPredictionOnce
    \/ CallFulfillPrediction
    \/ CallFulfillPredictionViaAgent
    \/ CallCancelRequest

SpecConfig == Init /\ [][NextConfig]_vars

\* The publisher while its owner changes the request timeout and the
\* blocks pass.
NextTimeout ==
    \/ CallSetRequestTimeout
    \/ CallRequestPredictionOnce
    \/ CallFulfillPrediction
    \/ CallFulfillPredictionViaAgent
    \/ CallCancelRequest
    \/ Tick

SpecTimeout == Init /\ [][NextTimeout]_vars

\* The agent contract, deployed with or without a publisher contract.
InitAgent ==
    /\ VerifierIdle
    /\ \E publisher_contract \in {None, Some(PublisherAccount)} :
          Deployed(None, publisher_contract)

NextAgent ==
    \/ CallRegisterAgent
    \/ CallRequestSignature
    \/ CallAddAllowedAction
    \/ CallRemoveAllowedAction
    \/ CallSetPublisherContract
    \/ Tick

SpecAgent == InitAgent /\ [][NextAgent]_vars

(***************************************************************************)
(* Properties of to_arkworks_proof.                                        *)
(***************************************************************************)
IsProofCall == call.fn = "to_arkworks_proof"

OuterShapeValid(p) == Len(p.pi_a) = 2 /\ Len(p.pi_b) = 2 /\ Len(p.pi_c) = 2

ShapeValid(p) ==
    OuterShapeValid(p) /\ Len(p.pi_b[1]) = 2 /\ Len(p.pi_b[2]) = 2

LengthErrors == {"InvalidPiALength", "InvalidPiBLength", "InvalidPiCLength"}

\* C1: a proof whose three outer lengths are 2 but whose pi_b has a row of
\* another length is answered with an error value: the call neither panics nor
\* returns Ok.  (The claim names the error InvalidG2Format, which the code never
\* constructs; the formula asks only for an error of any variant.)
C1_RaggedPiBIsG2FormatError ==
    (IsProofCall /\ OuterShapeValid(call.arg) /\ ~ShapeValid(call.arg))
        => ret.kind = "Err"

\* C2: the outer lengths are checked in the order pi_a, pi_b, pi_c and the
\* first one that is not 2 is the error returned, with got = the actual length.
C2_LengthChecksInOrder ==
    IsProofCall =>
        LET p == call.arg
        IN  /\ Len(p.pi_a) # 2 => ret = Err(InvalidPiALength(2, Len(p.pi_a)))
            /\ (Len(p.pi_a) = 2 /\ Len(p.pi_b) # 2)
                   => ret = Err(InvalidPiBLength(2, Len(p.pi_b)))
            /\ (Len(p.pi_a) = 2 /\ Len(p.pi_b) = 2 /\ Len(p.pi_c) # 2)
                   => ret = Err(InvalidPiCLength(2, Len(p.pi_c)))

\* C2 witness: all three lengths are wrong and pi_a's is the one reported.
C2_Witness ==
    /\ IsProofCall
    /\ Len(call.arg.pi_a) = 3 /\ Len(call.arg.pi_b) = 1 /\ Len(call.arg.pi_c) = 0
    /\ ret = Err(InvalidPiALength(2, 3))

\* C3: when an outer length is not 2 the result is a length error and no
\* string has been handed to a decoder, so it is never InvalidFieldElement.
C3_ShapeErrorBeforeDecoding ==
    (IsProofCall /\ ~OuterShapeValid(call.arg))
        => /\ ret.kind = "Err"
           /\ ret.err.variant \in LengthErrors
           /\ reads = <<>>

\* C3 witness: every string of the proof is undecodable and pi_c is too long.
C3_Witness ==
    /\ IsProofCall
    /\ call.arg.pi_a = <<BadA, BadA>>
    /\ call.arg.pi_b = <<<<BadB>>, <<BadB>>>>
    /\ call.arg.pi_c = <<BadA, BadA, BadA>>
    /\ call.arg.public_signals = <<SignalBad>>
    /\ ret = Err(InvalidPiCLength(2, 3))
    /\ reads = <<>>

\* The strings of a shape-valid proof in decoding order, and the decoding of
\* the i-th of them: the eight coordinates in Fq, the public signals in Fr.
Slots(p) ==
    <<p.pi_a[1], p.pi_a[2],
      p.pi_b[1][1], p.pi_b[1][2], p.pi_b[2][1], p.pi_b[2][2],
      p.pi_c[1], p.pi_c[2]>> \o p.public_signals

DecodeSlot(p, i) ==
    IF i <= 8 THEN ParseFqElement(Slots(p)[i]) ELSE ParseFrElement(Slots(p)[i])

Undecodable(p) == {i \in 1..Len(Slots(p)) : DecodeSlot(p, i).kind # "Ok"}

FirstOf(S) == CHOOSE i \in S : \A j \in S : i <= j

\* C4: for a shape-valid proof the strings are decoded in the order pi_a,
\* pi_b row by row, pi_c, publicSignals; the result is Ok iff all of them
\* decode, and otherwise it is the InvalidFieldElement error of the first
\* undecodable one, nothing after it having been decoded.
C4_FailFast ==
    (IsProofCall /\ ShapeValid(call.arg)) =>
        LET p == call.arg
        IN  IF Undecodable(p) = {}
            THEN ret.kind = "Ok" /\ reads = Slots(p)
            ELSE /\ ret = DecodeSlot(p, FirstOf(Undecodable(p)))
                 /\ ret.kind = "Err"
                 /\ ret.err.variant = "InvalidFieldElement"
                 /\ reads = SubSeq(Slots(p), 1, FirstOf(Undecodable(p)))

\* C4 witness: pi_b, pi_c and the signals each hold an undecodable string and
\* the error is the one of pi_b's.
C4_Witness ==
    /\ IsProofCall /\ ShapeValid(call.arg)
    /\ call.arg.pi_b[2][1] = BadB
    /\ call.arg.pi_c[1] = BadC
    /\ call.arg.public_signals = <<CoordBig, SignalBad>>
    /\ ret = Err(InvalidFieldElement(BadB))
    /\ Len(reads) = 5

(***************************************************************************)
(* Properties of parse_fq_element and parse_fr_element.  What a string     *)
(* denotes is defined here by positional notation, independently of the    *)
(* byte conversions of the decoders.                                       *)
(***************************************************************************)
IsElementCall == call.fn \in {"parse_fq_element", "parse_fr_element"}

\* The characteristic of the field the called decoder reduces into.
ModulusOf(fn) == IF fn = "parse_fq_element" THEN FqModulus ELSE FrModulus

\* The called decoder applied to another string.
Decode(fn, s) ==
    IF fn = "parse_fq_element" THEN ParseFqElement(s) ELSE ParseFrElement(s)

Quote == "\""

LeadingQuotes(s) ==
    Cardinality({i \in 1..Len(s) : \A j \in 1..i : s[j] = Quote})

TrailingQuotes(s) ==
    Cardinality({i \in 1..Len(s) : \A j \in i..Len(s) : s[j] = Quote})

\* s without its leading and trailing quotes, however many there are.
StripQuotes(s) ==
    IF LeadingQuotes(s) = Len(s) THEN <<>>
    ELSE SubSeq(s, LeadingQuotes(s) + 1, Len(s) - TrailingQuotes(s))

\* s without one pair of surrounding quotes, if it has one.
StripOnePair(s) ==
    IF Len(s) >= 2 /\ s[1] = Quote /\ s[Len(s)] = Quote
    THEN SubSeq(s, 2, Len(s) - 1)
    ELSE s

HexDigitChars == DecDigits \cup {"a", "b", "c", "d", "e", "f", "A", "B", "C", "D", "E", "F"}

HasHexPrefix(s) == Len(s) >= 2 /\ SubSeq(s, 1, 2) \in {<<"0", "x">>, <<"0", "X">>}

\* A base-10 unsigned integer: one or more decimal digits.
PlainDecimal(s) == Len(s) > 0 /\ \A i \in 1..Len(s) : s[i] \in DecDigits

\* A 0x/0X prefix followed by whole bytes of hex digits.
EvenHex(s) ==
    /\ HasHexPrefix(s)
    /\ Len(s) % 2 = 0
    /\ \A i \in 3..Len(s) : s[i] \in HexDigitChars

\* What from_str accepts: an optional '+', a digit, then digits and '_'.
LenientDecimal(s) ==
    LET body == IF Len(s) > 0 /\ s[1] = "+" THEN Tail(s) ELSE s
    IN  /\ Len(body) > 0
        /\ body[1] \in DecDigits
        /\ \A i \in 1..Len(body) : body[i] \in DecDigits \cup {"_"}

RECURSIVE PositionalValue(_, _)
PositionalValue(digits, base) ==
    IF Len(digits) = 0 THEN 0
    ELSE base * PositionalValue(SubSeq(digits, 1, Len(digits) - 1), base)
         + HexVal(digits[Len(digits)])

IsDigitChar(c) == c \in DecDigits

\* The integer a decimal or 0x-prefixed string denotes.
Denoted(s) ==
    IF HasHexPrefix(s) THEN PositionalValue(SubSeq(s, 3, Len(s)), 16)
    ELSE PositionalValue(SelectSeq(s, IsDigitChar), 10)

HexChar(d) ==
    <<"0", "1", "2", "3", "4", "5", "6", "7",
      "8", "9", "A", "B", "C", "D", "E", "F">>[d + 1]

\* The hexadecimal digits of n, without padding.
RECURSIVE HexOf(_)
HexOf(n) == IF n < 16 THEN <<HexChar(n)>> ELSE HexOf(n \div 16) \o <<HexChar(n % 16)>>

\* The hexadecimal digits of n, padded with a zero to whole bytes.
EvenHexOf(n) == IF Len(HexOf(n)) % 2 = 0 THEN HexOf(n) ELSE <<"0">> \o HexOf(n)

\* C5: an accepted decimal or hex string denoting n (bare or in one pair of
\* quotes) decodes to n mod q, which lies in 0..q-1, is n itself when n < q,
\* and is produced without error when n >= q.
C5_ExactReduction ==
    IsElementCall =>
        LET c == StripOnePair(call.arg)
            q == ModulusOf(call.fn)
        IN  (PlainDecimal(c) \/ EvenHex(c)) =>
                /\ ret = Ok(Denoted(c) % q)
                /\ ret.val \in 0..(q - 1)
                /\ Denoted(c) < q => ret.val = Denoted(c)

\* C5 witness: a number of more than one byte, above the characteristic.
C5_Witness ==
    /\ call = [fn |-> "parse_fq_element", arg |-> <<"0", "x", "0", "1", "0", "0">>]
    /\ ret = Ok(256 % FqModulus)

\* C6: in a parsed proof the eight coordinates are the strings' numbers
\* modulo p and the public inputs are the strings' numbers modulo r: a string
\* denoting n with r <= n < p is n as a coordinate and n - r as an input.
C6_FieldOfEachComponent ==
    (IsProofCall /\ ret.kind = "Ok") =>
        LET p == call.arg
            v == ret.val
            N(s) == Denoted(StripOnePair(s))
        IN  /\ v.pi_a.x = N(p.pi_a[1]) % FqModulus
            /\ v.pi_a.y = N(p.pi_a[2]) % FqModulus
            /\ v.pi_b.x.c0 = N(p.pi_b[1][1]) % FqModulus
            /\ v.pi_b.x.c1 = N(p.pi_b[1][2]) % FqModulus
            /\ v.pi_b.y.c0 = N(p.pi_b[2][1]) % FqModulus
            /\ v.pi_b.y.c1 = N(p.pi_b[2][2]) % FqModulus
            /\ v.pi_c.x = N(p.pi_c[1]) % FqModulus
            /\ v.pi_c.y = N(p.pi_c[2]) % FqModulus
            /\ Len(v.public_inputs) = Len(p.public_signals)
            /\ \A i \in 1..Len(p.public_signals) :
                   /\ v.public_inputs[i] = N(p.public_signals[i]) % FrModulus
                   /\ (FrModulus <= N(p.public_signals[i])
                         /\ N(p.public_signals[i]) < FqModulus
                         /\ p.pi_a[1] = p.public_signals[i])
                      => /\ v.pi_a.x = N(p.public_signals[i])
                         /\ v.public_inputs[i] = N(p.public_signals[i]) - FrModulus

\* C6 witness: the same string, denoting a number between r and p, is a
\* coordinate of pi_a and a public signal.
C6_Witness ==
    /\ IsProofCall /\ ret.kind = "Ok"
    /\ call.arg.pi_a[1] = CoordBig
    /\ call.arg.public_signals = <<CoordBig>>
    /\ Denoted(StripOnePair(CoordBig)) \in FrModulus..(FqModulus - 1)
    /\ ret.val.pi_a.x = Denoted(StripOnePair(CoordBig))
    /\ ret.val.public_inputs[1] = Denoted(StripOnePair(CoordBig)) - FrModulus

\* C7 as claimed: a decimal string denoting n and "0x" followed by the
\* hexadecimal digits of n both decode, to the same element, also when n has
\* an odd number of hexadecimal digits.
C7_DecimalHexEquivalence ==
    (IsElementCall /\ PlainDecimal(call.arg)) =>
        /\ ret.kind = "Ok"
        /\ Decode(call.fn, <<"0", "x">> \o HexOf(Denoted(call.arg))) = ret

\* C7 amended: a decimal string denoting n and "0x" followed by the
\* hexadecimal digits of n padded with a zero to an even number of digits
\* both decode, to the same element; with an odd number of digits the hex
\* string is rejected with InvalidFieldElement.
C7_DecimalEvenHexEquivalence ==
    (IsElementCall /\ PlainDecimal(call.arg)) =>
        LET n == Denoted(call.arg)
            h == <<"0", "x">> \o HexOf(n)
        IN  /\ ret.kind = "Ok"
            /\ Decode(call.fn, <<"0", "x">> \o EvenHexOf(n)) = ret
            /\ Len(HexOf(n)) % 2 = 1
                 => Decode(call.fn, h) = Err(InvalidFieldElement(h))

\* C7 witness: "208" decodes as "0xD0" does.
C7_Witness ==
    /\ call = [fn |-> "parse_fr_element", arg |-> <<"2", "0", "8">>]
    /\ ret = Ok(208 % FrModulus)
    /\ ParseFrElement(<<"0", "x", "D", "0">>) = ret

\* After one pair of quotes is set aside a quote still stands at an end of s.
QuoteRemains(s) ==
    \/ LeadingQuotes(s) >= 2
    \/ TrailingQuotes(s) >= 2
    \/ (LeadingQuotes(s) = 0) # (TrailingQuotes(s) = 0)

\* C8 as claimed: a string in one pair of quotes decodes as its content, and a
\* string with a quote on one side only, or with two or more quotes on a side,
\* is rejected.
C8_TrimsExactlyOnePair ==
    IsElementCall =>
        /\ (~QuoteRemains(call.arg) /\ LeadingQuotes(call.arg) < Len(call.arg))
              => ret = Decode(call.fn, StripOnePair(call.arg))
        /\ QuoteRemains(call.arg) => ret.kind = "Err"

\* C8 amended: every leading and every trailing quote is removed, however
\* many there are on either side and whether or not they pair up, and the
\* string decodes as what is left; a quote inside what is left is rejected.
C8_TrimsEveryQuote ==
    IsElementCall =>
        LET c == StripQuotes(call.arg)
        IN  /\ ret = Decode(call.fn, c)
            /\ (PlainDecimal(c) \/ EvenHex(c)) => ret.kind = "Ok"
            /\ (\E i \in 1..Len(c) : c[i] = Quote) => ret.kind = "Err"

\* C8 witness: two quotes before the digit, one after it, and the digit is
\* decoded.
C8_Witness ==
    /\ call = [fn |-> "parse_fq_element", arg |-> <<Quote, Quote, "7", Quote>>]
    /\ ret = Ok(7)

\* A decimal or hex string in the claims' sense, bare or in one pair of quotes.
ValidNumber(s) == PlainDecimal(StripOnePair(s)) \/ EvenHex(StripOnePair(s))

\* C9 as claimed: a string that is rejected, being neither valid decimal nor
\* valid hex, is answered with InvalidFieldElement carrying the string exactly
\* as supplied, surrounding quotes included.
C9_ErrorCarriesOriginal ==
    (IsElementCall /\ ~ValidNumber(call.arg) /\ ret.kind = "Err")
        => ret = Err(InvalidFieldElement(call.arg))

\* C9 amended: a string that, its leading and trailing quotes removed, is
\* neither 0x/0X with an even number of hex digits nor a decimal number as
\* from_str reads it is answered with InvalidFieldElement carrying the string
\* without its leading and trailing quotes; no other string is an error.
C9_ErrorCarriesTrimmed ==
    IsElementCall =>
        LET c == StripQuotes(call.arg)
        IN  IF EvenHex(c) \/ LenientDecimal(c)
            THEN ret.kind = "Ok"
            ELSE ret = Err(InvalidFieldElement(c))

\* C9 witness: a quoted hex string with an odd number of digits; the error
\* carries it without the quotes.
C9_Witness ==
    /\ call = [fn |-> "parse_fq_element", arg |-> <<Quote, "0", "x", "7", Quote>>]
    /\ ret = Err(InvalidFieldElement(<<"0", "x", "7">>))

\* C10 as claimed: without a 0x/0X prefix only a non-empty string of decimal
\* digits is accepted; the empty string and every string with a sign,
\* whitespace, an underscore or another non-digit is rejected.
C10_DecimalDigitsOnly ==
    IsElementCall =>
        LET c == StripQuotes(call.arg)
        IN  (~HasHexPrefix(c) /\ ~PlainDecimal(c)) => ret.kind = "Err"

\* C10 amended: without a 0x/0X prefix a string is accepted iff it is an
\* optional single '+', then a decimal digit, then decimal digits and
\* underscores; it decodes to the number its digits denote.  The empty
\* string, '-', whitespace, a leading underscore, a second '+' and every
\* other character are rejected with InvalidFieldElement.
C10_DecimalPathGrammar ==
    IsElementCall =>
        LET c == StripQuotes(call.arg)
        IN  ~HasHexPrefix(c) =>
                IF LenientDecimal(c)
                THEN ret = Ok(Denoted(c) % ModulusOf(call.fn))
                ELSE ret.kind = "Err" /\ ret.err.variant = "InvalidFieldElement"

\* C10 witness: a sign and an underscore around the digits of ten.
C10_Witness ==
    /\ call = [fn |-> "parse_fr_element", arg |-> <<"+", "1", "_", "0">>]
    /\ ret = Ok(10 % FrModulus)

(***************************************************************************)
(* Points.                                                                 *)
(***************************************************************************)
\* A coordinate string the decoders accept in the documented notations.
Numeral(s) == PlainDecimal(StripOnePair(s)) \/ EvenHex(StripOnePair(s))

\* The coordinate a numeral stands for: its number modulo p.
CoordOf(s) == Denoted(StripOnePair(s)) % FqModulus

\* pt is the G1 point the rule prescribes for reduced coordinates x and y.
G1Rule(pt, x, y) ==
    /\ pt.infinity <=> (x = 0 /\ y = 0)
    /\ ~pt.infinity => (pt.x = x /\ pt.y = y)

\* The BN254 G1 curve equation y^2 = x^3 + 3 over the stand-in field.
OnCurveG1(x, y) == (y * y) % FqModulus = (x * x * x + 3) % FqModulus

\* C11: parse_g1_point, alone and for pi_a and pi_c of a parsed proof,
\* returns the identity exactly when both coordinate strings reduce to zero
\* modulo p, and otherwise the non-identity affine point with exactly the
\* reduced coordinates; two numerals are never refused, on the curve or not.
C11_G1IdentityIffBothZero ==
    /\ call.fn = "parse_g1_point" =>
          (Numeral(call.arg[1]) /\ Numeral(call.arg[2]) =>
              /\ ret.kind = "Ok"
              /\ G1Rule(ret.val, CoordOf(call.arg[1]), CoordOf(call.arg[2])))
    /\ (IsProofCall /\ ret.kind = "Ok") =>
          /\ G1Rule(ret.val.pi_a, CoordOf(call.arg.pi_a[1]), CoordOf(call.arg.pi_a[2]))
          /\ G1Rule(ret.val.pi_c, CoordOf(call.arg.pi_c[1]), CoordOf(call.arg.pi_c[2]))

\* C11 witness: two strings denoting non-zero numbers, both multiples of p,
\* parsed to the identity.
C11_Witness ==
    /\ call.fn = "parse_g1_point"
    /\ Numeral(call.arg[1]) /\ Numeral(call.arg[2])
    /\ Denoted(StripOnePair(call.arg[1])) > 0
    /\ Denoted(StripOnePair(call.arg[2])) > FqModulus
    /\ ret = Ok(G1Identity)

\* A point that is not on the curve is returned as a non-identity point.
C11_OffCurveAccepted ==
    /\ call.fn = "parse_g1_point"
    /\ ret.kind = "Ok"
    /\ ~ret.val.infinity
    /\ ~OnCurveG1(ret.val.x, ret.val.y)
    /\ ret.val.x = CoordOf(call.arg[1])

\* pt is the G2 point the rule prescribes for the 2x2 array a of numerals:
\* row 1 is x, row 2 is y, and in each row c0 comes first.
G2Rule(pt, a) ==
    /\ pt.infinity <=> (\A i \in 1..2, j \in 1..2 : CoordOf(a[i][j]) = 0)
    /\ ~pt.infinity =>
          /\ pt.x.c0 = CoordOf(a[1][1]) /\ pt.x.c1 = CoordOf(a[1][2])
          /\ pt.y.c0 = CoordOf(a[2][1]) /\ pt.y.c1 = CoordOf(a[2][2])

AllZeroProof(p) ==
    /\ p.pi_a = <<CoordZero, CoordZero>>
    /\ p.pi_b = <<<<CoordZero, CoordZero>>, <<CoordZero, CoordZero>>>>
    /\ p.pi_c = <<CoordZero, CoordZero>>

\* C12: parse_g2_point, alone and for pi_b of a parsed proof, takes
\* x = (pi_b[0][0], pi_b[0][1]) and y = (pi_b[1][0], pi_b[1][1]) as (c0, c1),
\* each modulo p and unswapped, and returns the identity exactly when all
\* four reduce to zero; a proof whose coordinates are all "0" parses to
\* three identity points.
C12_G2ComponentOrder ==
    /\ call.fn = "parse_g2_point" =>
          /\ ret.kind = "Ok"
          /\ G2Rule(ret.val, call.arg)
    /\ (IsProofCall /\ ret.kind = "Ok") => G2Rule(ret.val.pi_b, call.arg.pi_b)
    /\ (IsProofCall /\ AllZeroProof(call.arg) /\ call.arg.public_signals = <<>>) =>
          /\ ret.kind = "Ok"
          /\ ret.val.pi_a.infinity /\ ret.val.pi_b.infinity /\ ret.val.pi_c.infinity

\* C12 witness: a parsed proof whose pi_b has a single non-zero component,
\* pi_b[0][0], which is c0 of x.
C12_Witness ==
    /\ IsProofCall
    /\ call.arg.pi_b = <<<<CoordBig, CoordZero>>, <<CoordZero, CoordZero>>>>
    /\ ret.kind = "Ok"
    /\ ~ret.val.pi_b.infinity
    /\ ret.val.pi_b.x = Fq2New(CoordOf(CoordBig), 0)
    /\ ret.val.pi_b.y = Fq2New(0, 0)
    /\ CoordOf(CoordBig) # 0

(***************************************************************************)
(* Public inputs.                                                          *)
(***************************************************************************)
\* The scalar a numeral stands for: its number modulo r.
ScalarOf(s) == Denoted(StripOnePair(s)) % FrModulus

\* C13: a parsed proof has as many public inputs as the raw proof has
\* public signals (none for none), and input i is the reduction modulo r of
\* signal i: nothing is dropped, added or reordered.
C13_PublicInputsMirrorSignals ==
    (IsProofCall /\ ret.kind = "Ok") =>
        /\ Len(ret.val.public_inputs) = Len(call.arg.public_signals)
        /\ \A i \in 1..Len(call.arg.public_signals) :
              ret.val.public_inputs[i] = ScalarOf(call.arg.public_signals[i])

\* C13 witness: two signals that reduce to different scalars, in order.
C13_Witness ==
    /\ IsProofCall
    /\ call.arg.public_signals = <<CoordBig, SignalSmall>>
    /\ ret.kind = "Ok"
    /\ ret.val.public_inputs = <<ScalarOf(CoordBig), ScalarOf(SignalSmall)>>
    /\ ScalarOf(CoordBig) # ScalarOf(SignalSmall)

(***************************************************************************)
(* Letter case of hex strings.                                             *)
(***************************************************************************)
UpperChar(c) ==
    CASE c = "a" -> "A" [] c = "b" -> "B" [] c = "c" -> "C"
      [] c = "d" -> "D" [] c = "e" -> "E" [] c = "f" -> "F"
      [] OTHER -> c

LowerChar(c) ==
    CASE c = "A" -> "a" [] c = "B" -> "b" [] c = "C" -> "c"
      [] c = "D" -> "d" [] c = "E" -> "e" [] c = "F" -> "f"
      [] OTHER -> c

\* The hex digits of a prefixed string, all in capitals or all in small
\* letters, behind the given prefix.
UpperHex(pre, s) == pre \o [i \in 1..(Len(s) - 2) |-> UpperChar(s[i + 2])]

LowerHex(pre, s) == pre \o [i \in 1..(Len(s) - 2) |-> LowerChar(s[i + 2])]

\* C17: a "0x" or "0X" prefix followed by whole bytes of hex digits decodes,
\* and to the same element as the same digits in capitals and in small
\* letters behind either prefix.
C17_HexCaseInsensitive ==
    (IsElementCall /\ EvenHex(call.arg)) =>
        /\ ret.kind = "Ok"
        /\ \A pre \in {<<"0", "x">>, <<"0", "X">>} :
              /\ ret = Decode(call.fn, UpperHex(pre, call.arg))
              /\ ret = Decode(call.fn, LowerHex(pre, call.arg))

\* C17 witness: capital prefix, digits in mixed case.
C17_Witness ==
    /\ IsElementCall
    /\ EvenHex(call.arg)
    /\ SubSeq(call.arg, 1, 2) = <<"0", "X">>
    /\ \E i, j \in 3..Len(call.arg) :
          /\ call.arg[i] # UpperChar(call.arg[i])
          /\ call.arg[j] # LowerChar(call.arg[j])
    /\ ret = Ok(Denoted(call.arg) % ModulusOf(call.fn))

(***************************************************************************)
(* The wire codec.                                                         *)
(***************************************************************************)
\* text holds part somewhere.
Contains(text, part) ==
    \E i \in 1..(Len(text) - Len(part) + 1) :
        SubSeq(text, i, i + Len(part) - 1) = part

\* A key as it stands in a JSON text: between quotes, before a colon.
KeyText(key) == <<Quote>> \o key \o <<Quote, ":">>

\* C14: from_json of the serialization of a RawProof is that RawProof, every
\* string as it was, character for character; the serialization names the
\* public-signal array "publicSignals" and not by its field name.
C14_RoundTripKeepsStrings ==
    /\ (call.fn = "from_json" /\ call.src = "to_string") =>
          /\ ret.kind = "Ok"
          /\ ret.val.pi_a = call.made.pi_a
          /\ ret.val.pi_b = call.made.pi_b
          /\ ret.val.pi_c = call.made.pi_c
          /\ ret.val.public_signals = call.made.public_signals
    /\ call.fn = "to_string" =>
          /\ ret.kind = "Ok"
          /\ Contains(ret.val.json, KeyText(<<"p", "u", "b", "l", "i", "c", "S", "i", "g",
                                        "n", "a", "l", "s">>))
          /\ ~Contains(ret.val.json, KeyText(<<"p", "u", "b", "l", "i", "c", "_", "s", "i",
                                         "g", "n", "a", "l", "s">>))

\* C14 witness: a proof with "0xD0", "007" and a string in quotes has come
\* back from the round trip.
C14_Witness ==
    /\ call.fn = "from_json" /\ call.src = "to_string"
    /\ call.made.pi_a = <<<<"0", "x", "D", "0">>, <<"0", "0", "7">>>>
    /\ call.made.public_signals = <<<<Quote, "1", "2", Quote>>>>
    /\ ret = Ok(call.made)

\* The type the wire format gives the value under a key.
WireType(key) ==
    IF key = <<"p", "i", "_", "b">> THEN "VecVecString" ELSE "VecString"

WireKeys ==
    {<<"p", "i", "_", "a">>, <<"p", "i", "_", "b">>, <<"p", "i", "_", "c">>,
     <<"p", "u", "b", "l", "i", "c", "S", "i", "g", "n", "a", "l", "s">>}

\* The description is of a whole document with nothing but whitespace
\* behind the value.
WholeDocument(ds) ==
    /\ ds.cut = Len(RenderFull(ds))
    /\ \A i \in 1..Len(ds.tail) : ds.tail[i] \in {" ", "\n"}

\* A well-formed JSON object with each of the four keys once, over a value
\* of its type.
GoodObject(ds) ==
    /\ ds.form = "object"
    /\ WholeDocument(ds)
    /\ \A key \in WireKeys :
          /\ Cardinality({k \in 1..Len(ds.members) : ds.members[k].key = key}) = 1
          /\ \A k \in 1..Len(ds.members) :
                ds.members[k].key = key => WireType(key) \in ds.members[k].val.fits

\* A well-formed JSON array of the four values, in declaration order.
GoodArray(ds) ==
    /\ ds.form = "array"
    /\ WholeDocument(ds)
    /\ Len(ds.members) = 4
    /\ \A k \in 1..4 :
          (IF k = 2 THEN "VecVecString" ELSE "VecString") \in ds.members[k].val.fits

IsJsonParseError(r) == r.kind = "Err" /\ r.err.variant = "JsonParseError"

IsDocumentCall == call.fn = "from_json" /\ call.src = "document"

\* C15 as stated: every document that is not a well-formed object with the
\* four keys and their shapes is refused with JsonParseError.
C15_OnlyObjectsAccepted ==
    (IsDocumentCall /\ ~GoodObject(call.made)) => IsJsonParseError(ret)

\* C15 amended: every document that is neither such an object nor an array
\* of the four values in declaration order is refused with JsonParseError,
\* and from_json fails with no other error.
C15_OnlyProofsAccepted ==
    /\ (IsDocumentCall /\ ~GoodObject(call.made) /\ ~GoodArray(call.made))
          => IsJsonParseError(ret)
    /\ (call.fn = "from_json" /\ ret.kind # "Ok") => IsJsonParseError(ret)

\* C15 witness: an object without its pi_c member, refused.
C15_Witness ==
    /\ IsDocumentCall
    /\ call.made.form = "object"
    /\ WholeDocument(call.made)
    /\ {call.made.members[k].key : k \in 1..Len(call.made.members)}
          = WireKeys \ {<<"p", "i", "_", "c">>}
    /\ IsJsonParseError(ret)

\* Both accepted forms are accepted, whatever the order of the members and
\* whatever other members the object has.
C15_GoodDocumentsAccepted ==
    (IsDocumentCall /\ (GoodObject(call.made) \/ GoodArray(call.made)))
        => ret.kind = "Ok"

\* Some document cut short is refused at its end.
C15_TruncatedRefused ==
    /\ IsDocumentCall
    /\ call.made.cut < Len(RenderFull(call.made))
    /\ call.made.cut > 0
    /\ ret = Err(JsonParseError("Eof"))

(***************************************************************************)
(* The publisher and the agent contract.                                   *)
(***************************************************************************)
IsFulfilment == tx.method \in {"fulfill_prediction", "fulfill_prediction_via_agent"}

\* The request the last transaction was about.
TxRequest == publisher.requests[tx.args.request_id]

\* C18: fulfill_prediction_via_agent commits only for the agent contract's
\* account: no other caller fulfils a request through it, whatever it
\* passes as agent_contract.
C18_OnlyAgentContractFulfilsViaAgent ==
    tx.method = "fulfill_prediction_via_agent" => tx.caller = AgentContractAccount

\* C19: a step forwards a call, counts a signature or stamps the action
\* time only as a request_signature of the account registered as agent for
\* a (target_contract, method_name) pair in allowed_actions at that time,
\* and then it does all three: one promise to that target and method, one
\* more signature, the block time.
C19_ForwardsOnlyAllowedActionsOfAgent ==
    [][(\/ promises' # promises
        \/ shade_agent'.signature_count # shade_agent.signature_count
        \/ shade_agent'.last_action_timestamp # shade_agent.last_action_timestamp)
          => /\ tx'.method = "request_signature"
             /\ shade_agent.agent.some
             /\ tx'.caller = shade_agent.agent.val.agent_account
             /\ \E i \in 1..Len(shade_agent.allowed_actions) :
                   /\ shade_agent.allowed_actions[i].contract_id
                         = tx'.args.target_contract
                   /\ shade_agent.allowed_actions[i].method_name
                         = tx'.args.method_name
             /\ Len(promises') = Len(promises) + 1
             /\ promises'[Len(promises')].action = "function_call"
             /\ promises'[Len(promises')].to = tx'.args.target_contract
             /\ promises'[Len(promises')].method_name = tx'.args.method_name
             /\ shade_agent'.signature_count = shade_agent.signature_count + 1
             /\ shade_agent'.last_action_timestamp = block_timestamp
             /\ shade_agent'.agent = shade_agent.agent
             /\ shade_agent'.allowed_actions = shade_agent.allowed_actions]_vars

\* C19 witness: the registered agent, not the owner, has had a call to the
\* publisher's fulfill_prediction_via_agent forwarded, after block 0.
C19_Witness ==
    /\ tx.method = "request_signature"
    /\ tx.caller # shade_agent.owner
    /\ tx.caller = shade_agent.agent.val.agent_account
    /\ shade_agent.signature_count = 1
    /\ shade_agent.last_action_timestamp > 0
    /\ promises = <<FunctionCall(PublisherAccount, "fulfill_prediction_via_agent",
                                 tx.out.args)>>

\* C20: a fulfilment of a zk_required request, on either path, had a proof,
\* and with a proof of at least one byte the stored zk_verified is
\* Some(true), with or without a verifier contract configured.
C20_NonEmptyProofIsVerified ==
    (IsFulfilment /\ TxRequest.zk_required) =>
        /\ tx.args.zk_proof.some
        /\ TxRequest.status = "Fulfilled"
        /\ Len(tx.args.zk_proof.val) > 0 =>
              (TxRequest.zk_verified.some /\ TxRequest.zk_verified.val = TRUE)

\* C20 witness: no verifier contract, a one-byte proof, zk_verified true.
C20_Witness ==
    /\ tx.method = "fulfill_prediction"
    /\ TxRequest.zk_required
    /\ ~publisher.verifier_contract.some
    /\ tx.args.zk_proof = Some(<<1>>)
    /\ TxRequest.zk_verified = Some(TRUE)

\* The same through fulfill_prediction_via_agent.
C20_WitnessViaAgent ==
    /\ tx.method = "fulfill_prediction_via_agent"
    /\ TxRequest.zk_required
    /\ ~publisher.verifier_contract.some
    /\ tx.args.zk_proof = Some(<<1>>)
    /\ TxRequest.zk_verified = Some(TRUE)

\* C21: a requester never fulfils their own request: every request with
\* status Fulfilled has a solver different from its requester.
C21_SolverIsNotRequester ==
    \A id \in DOMAIN publisher.requests :
        publisher.requests[id].status = "Fulfilled"
            => publisher.requests[id].solver.val # publisher.requests[id].requester

\* The request a step creates, fulfils or cancels.
StepCreates == Len(publisher'.requests) > Len(publisher.requests)

StepFulfils ==
    /\ promises' # promises
    /\ tx'.method \in {"fulfill_prediction", "fulfill_prediction_via_agent"}

StepCancels == promises' # promises /\ tx'.method = "cancel_request"

\* C22: a request's expires_at is its created_at plus the request_timeout
\* in force at its creation (in u64 arithmetic), no later step moves it,
\* a fulfilment on either path commits only at a time now <= expires_at,
\* and the requester of a Pending request can cancel it at any time.
C22_NoFulfilmentAfterExpiry ==
    [][/\ StepCreates =>
            LET request == publisher'.requests[Len(publisher'.requests)]
                sum     == block_timestamp + publisher.request_timeout
            IN  /\ request.created_at = block_timestamp
                /\ request.expires_at = sum % U64Modulus
                /\ sum < U64Modulus => request.expires_at = sum
       /\ \A id \in DOMAIN publisher.requests :
             /\ publisher'.requests[id].created_at = publisher.requests[id].created_at
             /\ publisher'.requests[id].expires_at = publisher.requests[id].expires_at
       /\ StepFulfils =>
             block_timestamp <= publisher.requests[tx'.args.request_id].expires_at
       /\ \A id \in DOMAIN publisher.requests :
             publisher.requests[id].status = "Pending" =>
                 CancelRequest(publisher, publisher.requests[id].requester, id).ok]_vars

\* C22 witness: a request created with timeout 0 after block 0 and
\* fulfilled, hence at the very time it expired; the owner has set another
\* request_timeout since.
C22_Witness ==
    /\ IsFulfilment
    /\ TxRequest.status = "Fulfilled"
    /\ TxRequest.expires_at = TxRequest.created_at
    /\ TxRequest.created_at > 0
    /\ publisher.request_timeout # 0

\* A request still Pending after it expired: only cancel_request is left.
C22_PendingAfterExpiry ==
    \E id \in DOMAIN publisher.requests :
        /\ publisher.requests[id].status = "Pending"
        /\ block_timestamp > publisher.requests[id].expires_at
        /\ publisher.requests[id].expires_at > publisher.requests[id].created_at

\* A request whose expiry wrapped around: it expired before it was created.
C22_WrappedExpiry ==
    \E id \in DOMAIN publisher.requests :
        publisher.requests[id].expires_at < publisher.requests[id].created_at

\* C23: cancel_request commits exactly for the requester of a Pending
\* request; a committed call sets that request's status to Cancelled,
\* changes nothing else in the requests and transfers the deposit to the
\* requester.
C23_CancelOnlyByRequesterWhilePending ==
    [][/\ \A caller \in PublisherCallers, id \in RequestIds :
             CancelRequest(publisher, caller, id).ok
                 <=> /\ id \in DOMAIN publisher.requests
                     /\ caller = publisher.requests[id].requester
                     /\ publisher.requests[id].status = "Pending"
       /\ StepCancels =>
             LET id      == tx'.args.request_id
                 request == publisher.requests[id]
             IN  /\ id \in DOMAIN publisher.requests
                 /\ tx'.caller = request.requester
                 /\ request.status = "Pending"
                 /\ publisher' = [publisher EXCEPT !.requests[id].status = "Cancelled"]
                 /\ promises' = Append(promises,
                                       Transfer(request.requester, request.deposit))]_vars

\* C23 witness: the second request cancelled and its deposit of two
\* returned, while the first one is Fulfilled.
C23_Witness ==
    /\ tx.method = "cancel_request"
    /\ tx.args.request_id = 2
    /\ publisher.requests[1].status = "Fulfilled"
    /\ publisher.requests[2].status = "Cancelled"
    /\ promises[Len(promises)] = Transfer(publisher.requests[2].requester, 2)

C24_FirstCallerRegistered ==
    /\ tx.method = "register_agent"
    /\ tx.caller \in Users
    /\ shade_agent.agent.val.agent_account = tx.caller

\* The configuration fields of the publisher.
Config(self) ==
    <<self.verifier_contract, self.min_deposit, self.request_timeout,
      self.trusted_solvers>>

\* C25: verifier_contract, min_deposit, request_timeout and
\* trusted_solvers change only in a step of the owner calling the setter
\* of that field; every setter fails for a caller other than the owner;
\* owner never changes; trusted_solvers holds no account twice.
C25_ConfigurationOwnerOnly ==
    [][/\ Config(publisher') # Config(publisher) => tx'.caller = publisher.owner
       /\ publisher'.verifier_contract # publisher.verifier_contract
             => tx'.method = "set_verifier_contract"
                /\ publisher'.verifier_contract = tx'.args.verifier
       /\ publisher'.min_deposit # publisher.min_deposit
             => tx'.method = "set_min_deposit"
                /\ publisher'.min_deposit = tx'.args.min_deposit
       /\ publisher'.request_timeout # publisher.request_timeout
             => tx'.method = "set_request_timeout"
                /\ publisher'.request_timeout = tx'.args.timeout
       /\ publisher'.trusted_solvers # publisher.trusted_solvers
             => tx'.method \in {"add_trusted_solver", "remove_trusted_solver"}
       /\ \A caller \in PublisherCallers :
             /\ ~SetVerifierContract(publisher, caller, None).ok
             /\ ~SetMinDeposit(publisher, caller, 0).ok
             /\ ~SetRequestTimeout(publisher, caller, 0).ok
             /\ ~AddTrustedSolver(publisher, caller, caller).ok
             /\ ~RemoveTrustedSolver(publisher, caller, caller).ok
       /\ publisher'.owner = publisher.owner
       /\ \A i, j \in 1..Len(publisher'.trusted_solvers) :
             i # j => publisher'.trusted_solvers[i] # publisher'.trusted_solvers[j]]_vars

\* C25 witness: the owner has set every field and just added a second
\* trusted solver; a request taken meanwhile is Fulfilled.
C25_Witness ==
    /\ tx.method = "add_trusted_solver"
    /\ tx.caller = publisher.owner
    /\ Len(publisher.trusted_solvers) = 2
    /\ publisher.verifier_contract.some
    /\ publisher.min_deposit = MinDepositDefault + 1
    /\ publisher.request_timeout = 0
    /\ Len(publisher.requests) = 1
    /\ publisher.requests[1].status = "Fulfilled"

\* The requests that leave Pending in a step.
LeavePending ==
    {id \in DOMAIN publisher.requests :
        /\ publisher.requests[id].status = "Pending"
        /\ publisher'.requests[id].status # "Pending"}

\* C26: a step schedules a transfer exactly when a request leaves Pending:
\* one request, one transfer, of the deposit recorded for that request at
\* request_prediction; a request that has left Pending never returns to
\* it, so no request is paid out twice.
C26_DepositPaidOnce ==
    [][/\ LeavePending = {} => promises' = promises
       /\ LeavePending # {} =>
             /\ LeavePending = {tx'.args.request_id}
             /\ Len(promises') = Len(promises) + 1
             /\ SubSeq(promises', 1, Len(promises)) = promises
             /\ promises'[Len(promises')].action = "transfer"
             /\ promises'[Len(promises')].amount
                   = publisher.requests[tx'.args.request_id].deposit
       /\ \A id \in DOMAIN publisher.requests :
             /\ publisher.requests[id].status # "Pending"
                   => publisher'.requests[id].status # "Pending"
             /\ publisher'.requests[id].deposit = publisher.requests[id].deposit
       /\ StepCreates =>
             publisher'.requests[Len(publisher'.requests)].deposit = tx'.args.deposit
       /\ Len(promises')
             = Cardinality({id \in DOMAIN publisher'.requests :
                               publisher'.requests[id].status # "Pending"})]_vars

\* C26 witness: two requests with different deposits, one fulfilled and one
\* cancelled, each paid out once.
C26_Witness ==
    /\ Len(publisher.requests) = 2
    /\ publisher.requests[1].status = "Fulfilled"
    /\ publisher.requests[2].status = "Cancelled"
    /\ publisher.requests[1].deposit # publisher.requests[2].deposit
    /\ Len(promises) = 2
    /\ {promises[1].amount, promises[2].amount}
          = {publisher.requests[1].deposit, publisher.requests[2].deposit}

\* solver, predicted_price and zk_verified are set exactly in a Fulfilled
\* request.
FulfilmentFieldsMatchStatus(request) ==
    /\ request.solver.some <=> request.status = "Fulfilled"
    /\ request.predicted_price.some <=> request.status = "Fulfilled"
    /\ request.zk_verified.some <=> request.status = "Fulfilled"

\* C27: a request is created Pending; its status changes only from
\* Pending to Fulfilled or to Cancelled; a Fulfilled or Cancelled request
\* never changes again; no request is ever Expired; solver,
\* predicted_price and zk_verified are set exactly when the status is
\* Fulfilled.
C27_StatusLifecycle ==
    [][/\ StepCreates =>
             publisher'.requests[Len(publisher'.requests)].status = "Pending"
       /\ \A id \in DOMAIN publisher.requests :
             LET before == publisher.requests[id]
                 after  == publisher'.requests[id]
             IN  /\ after.status # before.status
                       => /\ before.status = "Pending"
                          /\ after.status \in {"Fulfilled", "Cancelled"}
                 /\ before.status # "Pending" => after = before
       /\ \A id \in DOMAIN publisher'.requests :
             /\ publisher'.requests[id].status \in {"Pending", "Fulfilled", "Cancelled"}
             /\ FulfilmentFieldsMatchStatus(publisher'.requests[id])]_vars

\* C27 witness: past its expiry the first request is still Pending, not
\* Expired; the second one is Fulfilled with its three fields set.
C27_Witness ==
    /\ Len(publisher.requests) = 2
    /\ publisher.requests[1].status = "Pending"
    /\ block_timestamp > publisher.requests[1].expires_at
    /\ publisher.requests[2].status = "Fulfilled"
    /\ publisher.requests[2].solver.some
    /\ publisher.requests[2].predicted_price = Some(7)
    /\ publisher.requests[2].zk_verified.some

\* How often id stands in the id list of account.
Occurrences(account, id) ==
    Cardinality({k \in 1..Len(publisher.requests_by_requester[account]) :
                    publisher.requests_by_requester[account][k] = id})

\* C28: request_prediction returns next_request_id, stores the request
\* under it and moves next_request_id on by one, starting from 1; with a
\* deposit below min_deposit it fails; the stored requests are the ids
\* 1 .. next_request_id - 1, no step removes one, and each id stands once
\* in requests_by_requester, under its requester and nowhere else.
C28_RequestIdsSequential ==
    [][/\ StepCreates =>
             /\ tx'.method = "request_prediction"
             /\ tx'.out.u64 = publisher.next_request_id
             /\ tx'.out.u64 = Len(publisher.requests) + 1
             /\ publisher'.next_request_id = publisher.next_request_id + 1
             /\ Len(publisher'.requests) = Len(publisher.requests) + 1
             /\ publisher'.requests[tx'.out.u64].request_id = tx'.out.u64
             /\ publisher'.requests[tx'.out.u64].requester = tx'.caller
       /\ ~StepCreates => publisher'.next_request_id = publisher.next_request_id
       /\ \A caller \in PublisherCallers, deposit \in 0..(publisher.min_deposit - 1),
             zk_required \in BOOLEAN, overflow_checks \in BOOLEAN :
             ~RequestPrediction(publisher, block_timestamp, caller, deposit, "NEAR",
                                "1h", zk_required, overflow_checks).ok
       /\ DOMAIN publisher.requests = 1..(publisher.next_request_id - 1)
       /\ \A id \in DOMAIN publisher.requests :
             /\ id \in DOMAIN publisher'.requests
             /\ publisher.requests[id].request_id = id
             /\ publisher'.requests[id].request_id = id
             /\ \A account \in DOMAIN publisher.requests_by_requester :
                   Occurrences(account, id)
                       = IF account = publisher.requests[id].requester THEN 1 ELSE 0
       /\ \A account \in DOMAIN publisher.requests_by_requester :
             \A k \in 1..Len(publisher.requests_by_requester[account]) :
                 publisher.requests_by_requester[account][k] \in DOMAIN publisher.requests]_vars

\* C28 witness: the second request of the same requester got id 2.
C28_Witness ==
    /\ tx.method = "request_prediction"
    /\ tx.out.u64 = 2
    /\ publisher.next_request_id = 3
    /\ publisher.requests_by_requester[tx.caller] = <<1, 2>>

====
